---- MODULE Spec2Model ----
(***************************************************************************)
(* Derived-metrics and join engine of the risk dashboard:                  *)
(*   src/lib/geographic.ts     geographic records, hazard score, zones     *)
(*   src/unnamed/part_003      unified-point join (lines 1-246) and the    *)
(*                             socioeconomic module (lines 248-640)        *)
(*                                                                         *)
(* Numbers.  A JavaScript number is a record [k, v]: k = "num" with the    *)
(* value v in a fixed-point unit, "nan", "inf" (v = 1 or -1) or "undef"    *)
(* (a missing field).  Units:                                              *)
(*   lat, lng               plain integers, 1e-7 degree                    *)
(*   distances              centimetres                                    *)
(*   losses, thresholds     1/100 sol (the percentile weights are 1/100)   *)
(*   erosion/sediment sums  1e-3                                           *)
(*   means, deviations      1e-6                                           *)
(*   0-1 sub-scores         1e-4                                           *)
(*   0-100 scores           1e-4                                           *)
(*   counts, income         units                                          *)
(* Arithmetic is exact in these units where the code's is floating point.  *)
(***************************************************************************)
EXTENDS Integers, Sequences, FiniteSets, TLC

VARIABLES
    socioeconomic,     \* part_003:569   socioeconomicRaw.map(withDerived)
    geographic,        \* geographic.ts:516 geographicRaw.map(withDerived)
    pc,                \* "load": the dataset modules are evaluated, the join module
                       \* is not; "ready": all modules are; "call" / "done": an
                       \* exported function is about to run on arg / has returned ret
    unifiedPoints,     \* part_003:190   points of joinPoints()
    lossThresholds,    \* part_003:190   thresholds of joinPoints()
    arg,               \* argument of the call of an exported function
    ret,               \* value returned by the last call of an exported function
    impactPoints,      \* map-viewer.tsx:25  the impactPoints prop of MapViewer
    mapRef,            \* map-viewer.tsx:28  mapRef.current: the container or null
    loading,           \* map-viewer.tsx:29  the loading state
    map,               \* map-viewer.tsx:33  let map of the effect
    polygon,           \* map-viewer.tsx:34  let polygon of the effect
    markers,           \* map-viewer.tsx:35  const markers of the effect
    timeoutId,         \* map-viewer.tsx:36  let timeoutId of the effect
    initPc,            \* map-viewer.tsx:38  init: "idle" not called, "import" at the
                       \* await of line 39, "end" returned
    cleaned,           \* map-viewer.tsx:121 the cleanup of the effect has run
    layers,            \* the Leaflet map and layers that exist on the page
    listeners,         \* the one-time event listeners registered and not yet run
    timers             \* the ids of the pending window timers

\* the state of a rendered MapViewer and of the page it draws on
viewerVars == <<impactPoints, mapRef, loading, map, polygon, markers, timeoutId,
                initPc, cleaned, layers, listeners, timers>>

vars == <<socioeconomic, geographic, pc, unifiedPoints, lossThresholds, arg, ret,
          viewerVars>>

----------------------------------------------------------------------------
(* JavaScript numbers *)

Num(n) == [k |-> "num", v |-> n]
NaN == [k |-> "nan", v |-> 0]
PosInf == [k |-> "inf", v |-> 1]
NegInf == [k |-> "inf", v |-> -1]
Undefined == [k |-> "undef", v |-> 0]

\* Number.isFinite(x)
IsFinite(x) == x.k = "num"
\* Number.isNaN(x): no coercion, undefined is not NaN
NumberIsNaN(x) == x.k = "nan"
\* ToNumber of an operand of an arithmetic operator: undefined -> NaN
ToNumber(x) == IF x.k = "undef" THEN NaN ELSE x

\* x || d: 0, NaN and undefined are falsy
OrElse(x, d) == IF x.k \in {"nan", "undef"} \/ (x.k = "num" /\ x.v = 0) THEN d ELSE x

AbsInt(n) == IF n < 0 THEN -n ELSE n

\* Math.abs(x)
MathAbs(x0) ==
    LET x == ToNumber(x0) IN
    CASE x.k = "num" -> Num(AbsInt(x.v))
      [] x.k = "inf" -> PosInf
      [] OTHER -> NaN

\* a < b, a <= b, a > b, a >= b: false as soon as one side is NaN
JsLt(a0, b0) ==
    LET a == ToNumber(a0)
        b == ToNumber(b0)
    IN  /\ a.k # "nan" /\ b.k # "nan"
        /\ CASE a.k = "num" /\ b.k = "num" -> a.v < b.v
             [] a.k = "num" /\ b.k = "inf" -> b.v = 1
             [] a.k = "inf" /\ b.k = "num" -> a.v = -1
             [] OTHER -> a.v < b.v
JsGt(a, b) == JsLt(b, a)
JsLe(a0, b0) ==
    LET a == ToNumber(a0)
        b == ToNumber(b0)
    IN  /\ a.k # "nan" /\ b.k # "nan"
        /\ (JsLt(a, b) \/ a = b)
JsGe(a, b) == JsLe(b, a)

\* a + b (both in the same unit)
JsAdd(a0, b0) ==
    LET a == ToNumber(a0)
        b == ToNumber(b0)
    IN  CASE a.k = "nan" \/ b.k = "nan" -> NaN
          [] a.k = "num" /\ b.k = "num" -> Num(a.v + b.v)
          [] a.k = "inf" /\ b.k = "inf" -> IF a.v = b.v THEN a ELSE NaN
          [] a.k = "inf" -> a
          [] OTHER -> b

\* -a
JsNeg(a0) ==
    LET a == ToNumber(a0) IN
    CASE a.k = "num" -> Num(-a.v)
      [] a.k = "inf" -> [k |-> "inf", v |-> -a.v]
      [] OTHER -> NaN

\* a maximum that takes the magnitude of its second argument
MathMaxOfMagnitude(a0, b0) ==
    LET a == ToNumber(a0)
        b == MathAbs(b0)
    IN  IF a.k = "nan" \/ b.k = "nan" THEN NaN
        ELSE IF JsLt(a, b) THEN b ELSE a

\* Math.max(a, b), Math.min(a, b): NaN if either is NaN
MathMax(a0, b0) ==
    LET a == ToNumber(a0)
        b == ToNumber(b0)
    IN  IF a.k = "nan" \/ b.k = "nan" THEN NaN
        ELSE IF JsLt(a, b) THEN b ELSE a
MathMin(a0, b0) ==
    LET a == ToNumber(a0)
        b == ToNumber(b0)
    IN  IF a.k = "nan" \/ b.k = "nan" THEN NaN
        ELSE IF JsLt(b, a) THEN b ELSE a

\* (a * num) / den for a finite positive constant num/den, rounding toward zero;
\* used for "x / c" and "w * x" with the unit change folded into num/den
JsScale(a0, num, den) ==
    LET a == ToNumber(a0) IN
    CASE a.k = "num" ->
            Num(IF a.v < 0 THEN -((-a.v * num) \div den) ELSE (a.v * num) \div den)
      [] a.k = "inf" -> a
      [] OTHER -> NaN

\* a / b for two numbers in the same unit, the quotient in 1/scale;
\* b is never 0 where the engine divides (see householdSize)
JsDiv(a0, b0, scale) ==
    LET a == ToNumber(a0)
        b == ToNumber(b0)
    IN  CASE a.k = "nan" \/ b.k = "nan" -> NaN
          [] a.k = "inf" /\ b.k = "inf" -> NaN
          [] a.k = "inf" -> [k |-> "inf", v |-> IF b.v < 0 THEN -a.v ELSE a.v]
          [] b.k = "inf" -> Num(0)
          [] b.v = 0 ->
                IF a.v = 0 THEN NaN ELSE [k |-> "inf", v |-> IF a.v < 0 THEN -1 ELSE 1]
          [] OTHER ->
                LET q == (AbsInt(a.v) * scale) \div AbsInt(b.v)
                IN  Num(IF (a.v < 0) # (b.v < 0) THEN -q ELSE q)

----------------------------------------------------------------------------
(* Geographic metrics module: src/lib/geographic.ts *)

\* clamp01 of geographic.ts (a non-finite x gives 0)
GeoClamp01(x0) ==
    LET x == ToNumber(x0) IN
    IF ~IsFinite(x) THEN Num(0)
    ELSE IF JsLt(x, Num(0)) THEN Num(0)
    ELSE IF JsGt(x, Num(10000)) THEN Num(10000)
    ELSE x

\* clamp of geographic.ts (a non-finite x gives min)
GeoClamp(x0, min, max) ==
    LET x == ToNumber(x0) IN
    IF ~IsFinite(x) THEN min
    ELSE MathMin(max, MathMax(min, x))

ScoreToCategoryNoMedio(s) == IF JsGe(s, Num(66 * 10000)) THEN "alto" ELSE "bajo"

scoreToCategory(s) ==
    IF JsGe(s, Num(66 * 10000)) THEN "alto"
    ELSE IF JsGe(s, Num(33 * 10000)) THEN "medio"
    ELSE "bajo"

\* the dominance rule without the 10% margin
dominanceNoMargin(erosionMagnitude, sedimentMagnitude) ==
    IF JsGt(erosionMagnitude, sedimentMagnitude) THEN "erosion"
    ELSE IF JsGt(sedimentMagnitude, erosionMagnitude) THEN "sedimentacion"
    ELSE "mixto"

\* const dominance of computeDerived; a > b * 1.1 as 10 a > 11 b. The accents of
\* the labels are left out.
dominance(erosionMagnitude, sedimentMagnitude) ==
    IF JsGt(JsScale(erosionMagnitude, 10, 1), JsScale(sedimentMagnitude, 11, 1))
    THEN "erosion"
    ELSE IF JsGt(JsScale(sedimentMagnitude, 10, 1), JsScale(erosionMagnitude, 11, 1))
    THEN "sedimentacion"
    ELSE "mixto"

\* computeDerived of geographic.ts; r is a GeographicRecord
GeoComputeDerived(r) ==
    LET erosionMagnitude == MathAbs(OrElse(r.erosionSum, Num(0)))
        sedimentMagnitude == MathAbs(OrElse(r.sedimentSum, Num(0)))
        netBalance == JsAdd(OrElse(r.sedimentSum, Num(0)), OrElse(r.erosionSum, Num(0)))
        \* |mean| / 0.0035, mean in 1e-6, quotient in 1e-4
        erosionIntensity ==
            GeoClamp01(JsScale(MathAbs(OrElse(r.erosionMean, Num(0))), 10000, 3500))
        \* |mean| / 0.002
        sedimentIntensity ==
            GeoClamp01(JsScale(MathAbs(OrElse(r.sedimentMean, Num(0))), 10000, 2000))
        \* (sums) / 120, sums in 1e-3
        magnitude ==
            GeoClamp01(JsScale(JsAdd(erosionMagnitude, sedimentMagnitude), 10, 120))
        \* (|std| + |std|) / 0.05, deviations in 1e-6
        variabilityIndex ==
            GeoClamp01(JsScale(JsAdd(MathAbs(OrElse(r.erosionStd, Num(0))),
                                     MathAbs(OrElse(r.sedimentStd, Num(0)))),
                               10000, 50000))
        weighted ==
            JsAdd(JsAdd(JsAdd(JsScale(erosionIntensity, 35, 1),
                              JsScale(sedimentIntensity, 25, 1)),
                        JsScale(variabilityIndex, 20, 1)),
                  JsScale(magnitude, 20, 1))
        hazardScore == GeoClamp(weighted, Num(0), Num(100 * 10000))
    IN  [erosionMagnitude |-> erosionMagnitude,
         sedimentMagnitude |-> sedimentMagnitude,
         netBalance |-> netBalance,
         processDominance |-> dominance(erosionMagnitude, sedimentMagnitude),
         variabilityIndex |-> variabilityIndex,
         hazardScore |-> hazardScore,
         riskCategory |-> scoreToCategory(hazardScore),
         \* the four clamped sub-scores (locals of computeDerived)
         sub |-> <<erosionIntensity, sedimentIntensity, magnitude, variabilityIndex>>]

\* Object.assign({}, a, b): the fields of a, overridden and extended by those of b
ObjectAssign(a, b) ==
    [f \in DOMAIN a \cup DOMAIN b |-> IF f \in DOMAIN b THEN b[f] ELSE a[f]]

GeoDerivedFields ==
    {"erosionMagnitude", "sedimentMagnitude", "netBalance", "processDominance",
     "variabilityIndex", "hazardScore", "riskCategory"}

\* withDerived of geographic.ts
GeoWithDerived(r) ==
    LET d == GeoComputeDerived(r)
    IN  ObjectAssign(r, [f \in GeoDerivedFields |-> d[f]])

\* withDerived that assigns onto the record it was given: Object.assign(r, ...)
GeoWithDerivedInPlace(r) == GeoWithDerived(r)

\* the record handed to withDerived, after the call: Object.assign({}, r, ...)
\* writes to the fresh object only (geographic.ts:101)
GeoWithDerivedLeaves(r) == r

\* rec of geographic.ts: the id is GEOG-<idx padded to 3 digits>, here <<"GEOG", idx>>
GeoRec(idx, lat, lng, zone, department, erosionSum, erosionMean, erosionStd, sedimentSum, sedimentMean, sedimentStd) ==
    [id |-> <<"GEOG", idx>>, lat |-> lat, lng |-> lng, zone |-> zone,
     department |-> department,
     erosionSum |-> erosionSum, erosionMean |-> erosionMean, erosionStd |-> erosionStd,
     sedimentSum |-> sedimentSum, sedimentMean |-> sedimentMean,
     sedimentStd |-> sedimentStd]

\* A Map whose iteration order matters: the sequence of its <<key, value>> entries
\* in insertion order.  get gives <<>> (undefined) or <<value>>; set of a key the map
\* holds replaces the value in place, set of a new key appends.
OMapGet(m, k) ==
    IF \E i \in DOMAIN m : m[i][1] = k
    THEN <<m[CHOOSE i \in DOMAIN m : m[i][1] = k][2]>>
    ELSE <<>>
\* OMapSet that moves a key it holds to the end
OMapSetMoveToEnd(m, k, v) ==
    Append(SelectSeq(m, LAMBDA e : e[1] # k), <<k, v>>)

OMapSet(m, k, v) ==
    IF \E i \in DOMAIN m : m[i][1] = k
    THEN [i \in DOMAIN m |-> IF m[i][1] = k THEN <<k, v>> ELSE m[i]]
    ELSE Append(m, <<k, v>>)

\* GeoFreshAcc that starts the totals at the row's own sums
GeoFreshAccSeeded(r) ==
    [zone |-> r.zone, department |-> r.department, n |-> 0,
     totalErosionSum |-> r.erosionSum, totalSedimentSum |-> r.sedimentSum,
     sumErosionMean |-> Num(0), sumSedimentMean |-> Num(0),
     sumVariability |-> Num(0), sumHazard |-> Num(0)]

\* the accumulator of a zone first seen at row r (geographic.ts:193-203)
GeoFreshAcc(r) ==
    [zone |-> r.zone, department |-> r.department, n |-> 0,
     totalErosionSum |-> Num(0), totalSedimentSum |-> Num(0),
     sumErosionMean |-> Num(0), sumSedimentMean |-> Num(0),
     sumVariability |-> Num(0), sumHazard |-> Num(0)]

\* GeoAddRow that sets the count instead of adding to it
GeoAddRowCountReset(m, r) ==
    [m EXCEPT !.n = 1,
              !.totalErosionSum = JsAdd(@, r.erosionSum),
              !.totalSedimentSum = JsAdd(@, r.sedimentSum),
              !.sumErosionMean = JsAdd(@, r.erosionMean),
              !.sumSedimentMean = JsAdd(@, r.sedimentMean),
              !.sumVariability = JsAdd(@, r.variabilityIndex),
              !.sumHazard = JsAdd(@, r.hazardScore)]

\* the "+=" lines of aggregateByZone (geographic.ts:204-210)
GeoAddRow(m, r) ==
    [m EXCEPT !.n = @ + 1,
              !.totalErosionSum = JsAdd(@, r.erosionSum),
              !.totalSedimentSum = JsAdd(@, r.sedimentSum),
              !.sumErosionMean = JsAdd(@, r.erosionMean),
              !.sumSedimentMean = JsAdd(@, r.sedimentMean),
              !.sumVariability = JsAdd(@, r.variabilityIndex),
              !.sumHazard = JsAdd(@, r.hazardScore)]

\* a row read as it is: on a raw row the derived fields read as undefined
GeoEnrichedNot(r0) ==
    IF "hazardScore" \in DOMAIN r0 THEN r0
    ELSE ObjectAssign([f \in GeoDerivedFields |-> Undefined], r0)

\* the row as aggregateByZone reads it: enriched unless it is already
\* (geographic.ts:187-190)
GeoEnriched(r0) == IF "hazardScore" \in DOMAIN r0 THEN r0 ELSE GeoWithDerived(r0)

\* the callback of rows.forEach on the enriched row r (geographic.ts:191-211)
GeoAccStep(acc, r) ==
    LET k == r.zone
        got == OMapGet(acc, k)
        m == IF got = <<>> THEN GeoFreshAcc(r) ELSE got[1]
    IN  OMapSet(acc, k, GeoAddRow(m, r))

\* rows.forEach of aggregateByZone over the first n rows (geographic.ts:186-212);
\* {e : x \in {v}} names the value v as x
RECURSIVE GeoAccLoop(_, _)
GeoAccLoop(rows, n) ==
    IF n = 0 THEN <<>>
    ELSE CHOOSE next \in {GeoAccStep(acc, r) : acc \in {GeoAccLoop(rows, n - 1)},
                                               r \in {GeoEnriched(rows[n])}} : TRUE

\* GeoZoneRow that takes the category of the sum of the hazard scores
GeoZoneRowCategoryOfSum(m) ==
    [zone |-> m.zone, department |-> m.department, sites |-> Num(m.n),
     totalErosionSum |-> m.totalErosionSum,
     totalSedimentSum |-> m.totalSedimentSum,
     netBalanceTotal |-> JsAdd(m.totalErosionSum, m.totalSedimentSum),
     avgErosionMean |-> JsDiv(m.sumErosionMean, Num(m.n), 1),
     avgSedimentMean |-> JsDiv(m.sumSedimentMean, Num(m.n), 1),
     avgVariability |-> JsDiv(m.sumVariability, Num(m.n), 1),
     avgHazardScore |-> JsDiv(m.sumHazard, Num(m.n), 1),
     riskCategory |-> scoreToCategory(m.sumHazard)]

\* the row made of one accumulator (geographic.ts:214-229); averages are sum / n
GeoZoneRow(m) ==
    LET avgHazardScore == JsDiv(m.sumHazard, Num(m.n), 1)
    IN  [zone |-> m.zone, department |-> m.department, sites |-> Num(m.n),
         totalErosionSum |-> m.totalErosionSum,
         totalSedimentSum |-> m.totalSedimentSum,
         netBalanceTotal |-> JsAdd(m.totalErosionSum, m.totalSedimentSum),
         avgErosionMean |-> JsDiv(m.sumErosionMean, Num(m.n), 1),
         avgSedimentMean |-> JsDiv(m.sumSedimentMean, Num(m.n), 1),
         avgVariability |-> JsDiv(m.sumVariability, Num(m.n), 1),
         avgHazardScore |-> avgHazardScore,
         riskCategory |-> scoreToCategory(avgHazardScore)]

\* aggregateByZone of geographic.ts
GeoAggregateByZone(rows) ==
    CHOOSE out \in {[i \in 1..Len(acc) |-> GeoZoneRow(acc[i][2])] :
                        acc \in {GeoAccLoop(rows, Len(rows))}} : TRUE

\* a feature with the coordinates as [lat, lng]
GeoFeatureLatLng(r) == [type |-> "Feature", geometry |-> [type |-> "Point", coordinates |-> <<r.lat, r.lng>>], properties |-> [id |-> r.id, zone |-> r.zone, department |-> r.department, erosionMean |-> r.erosionMean, sedimentMean |-> r.sedimentMean, netBalance |-> r.netBalance, variability |-> r.variabilityIndex, hazardScore |-> r.hazardScore, riskCategory |-> r.riskCategory]]

\* one feature of toGeoJSON, of the enriched row r (geographic.ts:254-268)
GeoFeature(r) ==
    [type |-> "Feature",
     geometry |-> [type |-> "Point", coordinates |-> <<r.lng, r.lat>>],
     properties |-> [id |-> r.id, zone |-> r.zone, department |-> r.department,
                     erosionMean |-> r.erosionMean, sedimentMean |-> r.sedimentMean,
                     netBalance |-> r.netBalance, variability |-> r.variabilityIndex,
                     hazardScore |-> r.hazardScore, riskCategory |-> r.riskCategory]]

\* toGeoJSON of geographic.ts
GeoToGeoJSON(rows) ==
    [type |-> "FeatureCollection",
     features |-> [i \in 1..Len(rows) |->
                      CHOOSE f \in {GeoFeature(r) : r \in {GeoEnriched(rows[i])}} : TRUE]]

----------------------------------------------------------------------------
(* Socioeconomic metrics module: src/unnamed/part_003, lines 248-640 *)

\* SocioClamp01 without the NaN guard
SocioClamp01NoGuard(x0) ==
    LET x == ToNumber(x0) IN
    IF JsLt(x, Num(0)) THEN Num(0)
    ELSE IF JsGt(x, Num(10000)) THEN Num(10000)
    ELSE x

\* clamp01 of the socioeconomic module (only NaN gives 0; Infinity gives 1)
SocioClamp01(x0) ==
    LET x == ToNumber(x0) IN
    IF NumberIsNaN(x) THEN Num(0)
    ELSE IF JsLt(x, Num(0)) THEN Num(0)
    ELSE IF JsGt(x, Num(10000)) THEN Num(10000)
    ELSE x

\* a clamp that bounds from above only
SocioClampNoFloor(x0, min, max) ==
    LET x == ToNumber(x0) IN
    IF NumberIsNaN(x) THEN min
    ELSE MathMin(max, x)

\* clamp of the socioeconomic module
SocioClamp(x0, min, max) ==
    LET x == ToNumber(x0) IN
    IF NumberIsNaN(x) THEN min
    ELSE MathMin(max, MathMax(min, x))

riskCategoryFromScore(score) ==
    IF JsGe(score, Num(66 * 10000)) THEN "alto"
    ELSE IF JsGe(score, Num(33 * 10000)) THEN "medio"
    ELSE "bajo"

\* a divisor that takes the household size as it is
householdSizeAsGiven(r) == ToNumber(r.householdSize)

\* const householdSize of computeDerived: the divisor of incomePerCapita and of
\* the ratio sub-scores
householdSizeDivisor(r) == MathMax(Num(1), OrElse(r.householdSize, Num(1)))

\* computeDerived of the socioeconomic module; r is a SocioeconomicRecord
SocioComputeDerived(r) ==
    LET dependents ==
            MathMax(Num(0), JsAdd(OrElse(r.elders65, Num(0)),
                                  OrElse(r.childrenUnder10, Num(0))))
        employmentTotal ==
            JsAdd(OrElse(r.formalJobs, Num(0)), OrElse(r.informalJobs, Num(0)))
        hasAnyInsurance == JsGt(OrElse(r.healthInsuranceCount, Num(0)), Num(0))
        \* in 1/100
        incomePerCapita == JsDiv(OrElse(r.monthlyIncome, Num(0)), householdSizeDivisor(r), 100)
        \* 1 - incomePerCapita / 1500, in 1e-4
        sIncome ==
            SocioClamp01(JsAdd(Num(10000), JsNeg(JsScale(incomePerCapita, 100, 1500))))
        sDependents == SocioClamp01(JsDiv(dependents, householdSizeDivisor(r), 10000))
        sElders == SocioClamp01(JsDiv(OrElse(r.elders65, Num(0)), householdSizeDivisor(r), 10000))
        sChronic ==
            SocioClamp01(JsDiv(OrElse(r.chronicConditionCount, Num(0)), householdSizeDivisor(r), 10000))
        sNoInsurance == IF hasAnyInsurance THEN Num(0) ELSE Num(10000)
        sIlliteracy ==
            SocioClamp01(JsDiv(OrElse(r.illiterateCount, Num(0)), householdSizeDivisor(r), 10000))
        sHigherEdu ==
            SocioClamp01(JsDiv(OrElse(r.higherEducationCount, Num(0)), householdSizeDivisor(r), 10000))
        weighted ==
            JsAdd(JsAdd(JsAdd(JsAdd(JsAdd(JsAdd(JsScale(sIncome, 30, 1),
                                                JsScale(sDependents, 20, 1)),
                                          JsScale(sElders, 10, 1)),
                                    JsScale(sChronic, 15, 1)),
                              JsScale(sNoInsurance, 15, 1)),
                        JsScale(sIlliteracy, 10, 1)),
                  JsNeg(JsScale(sHigherEdu, 5, 1)))
        score == SocioClamp(weighted, Num(0), Num(100 * 10000))
    IN  [dependents |-> dependents,
         employmentTotal |-> employmentTotal,
         hasAnyInsurance |-> hasAnyInsurance,
         incomePerCapita |-> incomePerCapita,
         vulnerabilityScore |-> score,
         riskCategory |-> riskCategoryFromScore(score),
         \* the seven sub-scores and the divisor (locals of computeDerived)
         sub |-> <<sIncome, sDependents, sElders, sChronic, sNoInsurance,
                   sIlliteracy, sHigherEdu>>,
         divisor |-> householdSizeDivisor(r)]

SocioDerivedFields ==
    {"dependents", "employmentTotal", "hasAnyInsurance", "incomePerCapita",
     "vulnerabilityScore", "riskCategory"}

\* withDerived of the socioeconomic module
SocioWithDerived(r) ==
    LET d == SocioComputeDerived(r)
    IN  ObjectAssign(r, [f \in SocioDerivedFields |-> d[f]])

\* rec of the socioeconomic module: the id is SOC-<idx padded to 3 digits>, here
\* <<"SOC", idx>>.  The coded survey answers ageCode, wallMaterialCode,
\* servicesDummy1 and servicesDummy2 enter no computation of the engine and are left out.
SocioRec(idx, lat, lng, zone, department, genderCode, householdSize, elders65, childrenUnder10, healthInsuranceCount, chronicConditionCount, higherEducationCount, illiterateCount, monthlyIncome, formalJobs, informalJobs, estimatedLossHousing) ==
    [id |-> <<"SOC", idx>>, lat |-> lat, lng |-> lng, zone |-> zone,
     department |-> department, genderCode |-> genderCode,
     householdSize |-> householdSize, elders65 |-> elders65,
     childrenUnder10 |-> childrenUnder10,
     healthInsuranceCount |-> healthInsuranceCount,
     chronicConditionCount |-> chronicConditionCount,
     higherEducationCount |-> higherEducationCount,
     illiterateCount |-> illiterateCount,
     monthlyIncome |-> monthlyIncome, formalJobs |-> formalJobs,
     informalJobs |-> informalJobs,
     estimatedLossHousing |-> estimatedLossHousing]

\* the accumulator of a zone first seen at row r (part_003:466-475)
SocioFreshAcc(r) ==
    [zone |-> r.zone, department |-> r.department, n |-> 0,
     sumHousehold |-> Num(0), sumIncome |-> Num(0), sumIncomePc |-> Num(0),
     insured |-> 0, sumVuln |-> Num(0)]

\* the "+=" lines of aggregateByZone (part_003:476-481)
SocioAddRow(m, r) ==
    [m EXCEPT !.n = @ + 1,
              !.sumHousehold = JsAdd(@, r.householdSize),
              !.sumIncome = JsAdd(@, r.monthlyIncome),
              !.sumIncomePc = JsAdd(@, r.incomePerCapita),
              !.insured = @ + (IF r.hasAnyInsurance THEN 1 ELSE 0),
              !.sumVuln = JsAdd(@, r.vulnerabilityScore)]

\* the row as aggregateByZone reads it: enriched unless it is already (part_003:464)
SocioEnriched(r0) ==
    IF "vulnerabilityScore" \in DOMAIN r0 THEN r0 ELSE SocioWithDerived(r0)

\* the callback of rows.forEach on the enriched row r (part_003:465-482)
SocioAccStep(acc, r) ==
    LET k == r.zone
        got == OMapGet(acc, k)
        m == IF got = <<>> THEN SocioFreshAcc(r) ELSE got[1]
    IN  OMapSet(acc, k, SocioAddRow(m, r))

\* rows.forEach of aggregateByZone over the first n rows (part_003:463-483)
RECURSIVE SocioAccLoop(_, _)
SocioAccLoop(rows, n) ==
    IF n = 0 THEN <<>>
    ELSE CHOOSE next \in {SocioAccStep(acc, r) : acc \in {SocioAccLoop(rows, n - 1)},
                                                 r \in {SocioEnriched(rows[n])}} : TRUE

\* the row with the category taken of the sum of the scores
SocioZoneRowCategoryOfSum(m) ==
    [zone |-> m.zone, department |-> m.department, households |-> Num(m.n),
     avgHouseholdSize |-> JsDiv(m.sumHousehold, Num(m.n), 100),
     avgIncome |-> JsDiv(m.sumIncome, Num(m.n), 100),
     avgIncomePerCapita |-> JsDiv(m.sumIncomePc, Num(m.n), 1),
     shareWithInsurance |-> JsDiv(Num(m.insured), Num(m.n), 10000),
     avgVulnerability |-> JsDiv(m.sumVuln, Num(m.n), 1),
     riskCategory |-> riskCategoryFromScore(m.sumVuln)]

\* the row made of one accumulator (part_003:485-498); shareWithInsurance in 1e-4
SocioZoneRow(m) ==
    LET avgVuln == JsDiv(m.sumVuln, Num(m.n), 1)
    IN  [zone |-> m.zone, department |-> m.department, households |-> Num(m.n),
         avgHouseholdSize |-> JsDiv(m.sumHousehold, Num(m.n), 100),
         avgIncome |-> JsDiv(m.sumIncome, Num(m.n), 100),
         avgIncomePerCapita |-> JsDiv(m.sumIncomePc, Num(m.n), 1),
         shareWithInsurance |-> JsDiv(Num(m.insured), Num(m.n), 10000),
         avgVulnerability |-> avgVuln,
         riskCategory |-> riskCategoryFromScore(avgVuln)]

\* aggregateByZone of the socioeconomic module
SocioAggregateByZone(rows) ==
    CHOOSE out \in {[i \in 1..Len(acc) |-> SocioZoneRow(acc[i][2])] :
                        acc \in {SocioAccLoop(rows, Len(rows))}} : TRUE

\* genderLabel
genderLabel(code) ==
    IF code = Num(0) THEN "Masculino"
    ELSE IF code = Num(1) THEN "Femenino"
    ELSE "Otro/NS"

\* one feature of toGeoJSON, of the enriched row r (part_003:520-537)
SocioFeature(r) ==
    [type |-> "Feature",
     geometry |-> [type |-> "Point", coordinates |-> <<r.lng, r.lat>>],
     properties |-> [id |-> r.id, zone |-> r.zone, department |-> r.department,
                     gender |-> genderLabel(r.genderCode),
                     householdSize |-> r.householdSize, dependents |-> r.dependents,
                     income |-> r.monthlyIncome, incomePerCapita |-> r.incomePerCapita,
                     employmentTotal |-> r.employmentTotal,
                     hasAnyInsurance |-> r.hasAnyInsurance,
                     vulnerabilityScore |-> r.vulnerabilityScore,
                     riskCategory |-> r.riskCategory]]

\* toGeoJSON of the socioeconomic module
SocioToGeoJSON(rows) ==
    [type |-> "FeatureCollection",
     features |-> [i \in 1..Len(rows) |->
                      CHOOSE f \in {SocioFeature(r) : r \in {SocioEnriched(rows[i])}} : TRUE]]

----------------------------------------------------------------------------
(* Unified point join module: src/unnamed/part_003, lines 1-246 *)

\* x.toFixed(6) of a coordinate in 1e-7 degree: the sign ("-" is printed for every
\* x < 0, also when the digits round to 0.000000) and the magnitude rounded to
\* 1e-6 degree, a half rounding up in magnitude
ToFixed6(x) == [neg |-> x < 0, digits |-> (AbsInt(x) + 5) \div 10]

coordKey(lat, lng) == <<ToFixed6(lat), ToFixed6(lng)>>

RECURSIVE ISqrtIter(_, _)
ISqrtIter(n, x) ==
    LET y == (x + n \div x) \div 2
    IN  IF y >= x THEN x ELSE ISqrtIter(n, y)
\* Math.sqrt on integers: the floor of the square root
ISqrt(n) == IF n < 2 THEN n ELSE ISqrtIter(n, n \div 2 + 1)

\* Math.cos(toRad(lat)) in 1e-4, lat in 1e-7 degree, by the series
\* 1 - x^2/2 + x^4/24 with x in 1e-4 radian (error below 1e-4 for |lat| < 45 degrees)
CosE4(lat) ==
    LET x == ((AbsInt(lat) \div 1000) * 1745) \div 100000
        x2 == x * x
    IN  10000 - x2 \div 20000 + ((x2 \div 10000) * (x2 \div 10000)) \div 240000

\* the arc without the factor 2 of 2 * R * Math.asin(...)
ArcCmHalved(d) == (AbsInt(d) + (AbsInt(d) * 11195) \div 100000) \div 2

\* R * toRad(d) in centimetres for d in 1e-7 degree: one unit is 1.11195 cm
\* (R = 6371000 m).  For the differences the join meets (below 0.004 degree)
\* 2 R sin(x/2) and 2 R asin(y) differ from R x and 2 R y by less than 1e-9.
ArcCm(d) == AbsInt(d) + (AbsInt(d) * 11195) \div 100000

\* haversineMeters, the result in centimetres
haversineMeters(a, b) ==
    LET dLat == ArcCm(b.lat - a.lat)
        dLng == ArcCm(b.lng - a.lng)
        cosCos == ISqrt(CosE4(a.lat) * CosE4(b.lat))
        dLngCos == (dLng * cosCos) \div 10000
    IN  ISqrt(dLat * dLat + dLngCos * dLngCos)

\* xs.filter(f) for a predicate on numbers
RECURSIVE FilterFinite(_)
FilterFinite(values) ==
    IF values = <<>> THEN <<>>
    ELSE IF IsFinite(values[1]) THEN <<values[1]>> \o FilterFinite(Tail(values))
    ELSE FilterFinite(Tail(values))

RECURSIVE InsertAsc(_, _)
InsertAsc(xs, x) ==
    IF xs = <<>> THEN <<x>>
    ELSE IF x.v < xs[1].v THEN <<x>> \o xs
    ELSE <<xs[1]>> \o InsertAsc(Tail(xs), x)
\* xs.sort((a, b) => a - b) on finite numbers
RECURSIVE SortAsc(_)
SortAsc(xs) ==
    IF xs = <<>> THEN <<>> ELSE InsertAsc(SortAsc(Tail(xs)), xs[1])

\* the percentiles of computeLossThresholds, in 1/100
P33 == 33
P66 == 66
\* the fallback thresholds (S/.)
StaticTLow == 200
StaticTMid == 500
\* fewer finite values than this give the fallback
MinSample == 4

\* Quantile without the interpolation: the order statistic at the floor of the index
QuantileFloor(xs, p) == xs[((Len(xs) - 1) * p) \div 100 + 1]

\* q(p) of computeLossThresholds, p in 1/100; xs is sorted and not empty
Quantile(xs, p) ==
    LET idx == (Len(xs) - 1) * p           \* in 1/100
        lo == idx \div 100
        hi == IF idx % 100 = 0 THEN lo ELSE lo + 1
        w == idx - lo * 100                \* in 1/100
    IN  IF lo = hi THEN xs[lo + 1]
        ELSE Num((xs[lo + 1].v * (100 - w) + xs[hi + 1].v * w) \div 100)

computeLossThresholds(values) ==
    LET xs == SortAsc(FilterFinite(values))
    IN  IF Len(xs) < MinSample
        THEN [tLow |-> Num(StaticTLow * 100), tMid |-> Num(StaticTMid * 100)]
        ELSE [tLow |-> Quantile(xs, P33), tMid |-> Quantile(xs, P66)]

\* riskCategoryFromLoss with strict comparisons
RiskCategoryFromLossStrict(loss, tLow, tMid) ==
    IF ~IsFinite(loss) THEN "bajo"
    ELSE IF JsLt(loss, tLow) THEN "bajo"
    ELSE IF JsLt(loss, tMid) THEN "medio"
    ELSE "alto"

riskCategoryFromLoss(loss, tLow, tMid) ==
    IF ~IsFinite(loss) THEN "bajo"
    ELSE IF JsLe(loss, tLow) THEN "bajo"
    ELSE IF JsLe(loss, tMid) THEN "medio"
    ELSE "alto"

\* inferLossRiskForGeoOnly without the medio band
InferLossRiskNoMedio(g) == IF JsGe(g.hazardScore, Num(66 * 10000)) THEN "alto" ELSE "bajo"

inferLossRiskForGeoOnly(g) ==
    LET s == g.hazardScore
    IN  IF JsGe(s, Num(66 * 10000)) THEN "alto"
        ELSE IF JsGe(s, Num(33 * 10000)) THEN "medio"
        ELSE "bajo"

\* new Map(): no key
EmptyMap == [k \in {} |-> <<>>]
\* m.set(k, v): a later set of the same key replaces the value
MapSet(m, k, v) == [x \in DOMAIN m \cup {k} |-> IF x = k THEN v ELSE m[x]]
\* m.get(k): <<>> is undefined, <<v>> a value
MapGet(m, k) == IF k \in DOMAIN m THEN <<m[k]>> ELSE <<>>

\* geographic.forEach((g) => geoIndex.set(coordKey(g.lat, g.lng), g)) from row i on
RECURSIVE BuildGeoIndex(_, _, _)
BuildGeoIndex(geos, i, m) ==
    IF i > Len(geos) THEN m
    ELSE BuildGeoIndex(geos, i + 1, MapSet(m, coordKey(geos[i].lat, geos[i].lng), geos[i]))

\* the distance argument of the fallback call, and nearestGeo's default (metres)
DefaultMaxMeters == 120
FallbackMeters == 150

\* the loop of nearestGeo from row i on; best = <<>> stands for best undefined and
\* bestD = Infinity
RECURSIVE NearestLoop(_, _, _, _, _, _)
NearestLoop(geos, lat, lng, maxCm, i, best) ==
    IF i > Len(geos) THEN best
    ELSE LET g == geos[i]
             d == haversineMeters([lat |-> lat, lng |-> lng], [lat |-> g.lat, lng |-> g.lng])
             closer == (best = <<>> \/ d < best[2]) /\ d <= maxCm
         IN  NearestLoop(geos, lat, lng, maxCm, i + 1, IF closer THEN <<g, d>> ELSE best)

\* nearestGeo(lat, lng, maxMeters): <<>> or <<g>>
nearestGeo(geos, lat, lng, maxMeters) ==
    LET best == NearestLoop(geos, lat, lng, maxMeters * 100, 1, <<>>)
    IN  IF best = <<>> THEN <<>> ELSE <<best[1]>>

\* the geographic record joinPoints attaches to socioeconomic record s
MatchGeo(geos, geoIndex, s) ==
    LET g == MapGet(geoIndex, coordKey(s.lat, s.lng))
    IN  IF g = <<>> THEN nearestGeo(geos, s.lat, s.lng, FallbackMeters) ELSE g

\* SocioPoint that takes the id of the geographic record attached, if any
SocioPointIdOfGeo(s, g, thresholds) ==
    [id |-> IF g = <<>> THEN s.id ELSE g[1].id,
     lat |-> s.lat, lng |-> s.lng, zone |-> s.zone,
     department |-> s.department, socio |-> <<s>>, geo |-> g,
     lossHousing |-> OrElse(s.estimatedLossHousing, Num(0)),
     lossRiskCategory |->
        riskCategoryFromLoss(OrElse(s.estimatedLossHousing, Num(0)),
                             thresholds.tLow, thresholds.tMid)]

\* SocioPoint with the loss taken as it is, without "|| 0"
SocioPointRawLoss(s, g, thresholds) ==
    [id |-> s.id, lat |-> s.lat, lng |-> s.lng, zone |-> s.zone,
     department |-> s.department, socio |-> <<s>>, geo |-> g,
     lossHousing |-> s.estimatedLossHousing,
     lossRiskCategory |->
        riskCategoryFromLoss(OrElse(s.estimatedLossHousing, Num(0)),
                             thresholds.tLow, thresholds.tMid)]

\* the unified point pushed for socioeconomic record s (part_003:155-167)
SocioPoint(s, g, thresholds) ==
    [id |-> s.id, lat |-> s.lat, lng |-> s.lng, zone |-> s.zone,
     department |-> s.department, socio |-> <<s>>, geo |-> g,
     lossHousing |-> OrElse(s.estimatedLossHousing, Num(0)),
     lossRiskCategory |->
        riskCategoryFromLoss(OrElse(s.estimatedLossHousing, Num(0)),
                             thresholds.tLow, thresholds.tMid)]

\* the unified point pushed for an unmatched geographic record g (part_003:173-184)
GeoOnlyPoint(g) ==
    [id |-> g.id, lat |-> g.lat, lng |-> g.lng, zone |-> g.zone,
     department |-> g.department, socio |-> <<>>, geo |-> <<g>>,
     lossHousing |-> Num(0),
     lossRiskCategory |-> inferLossRiskForGeoOnly(g)]

\* MergeLoop that marks a geographic record as used only on an exact key match
RECURSIVE MergeLoopMarkExact(_, _, _, _, _, _)
MergeLoopMarkExact(socios, geos, geoIndex, thresholds, i, st) ==
    IF i > Len(socios) THEN st
    ELSE LET s == socios[i]
             g == MatchGeo(geos, geoIndex, s)
             exact == MapGet(geoIndex, coordKey(s.lat, s.lng))
         IN  MergeLoopMarkExact(socios, geos, geoIndex, thresholds, i + 1,
                       [unified |-> Append(st.unified, SocioPoint(s, g, thresholds)),
                        usedGeoIds |-> IF exact = <<>> THEN st.usedGeoIds
                                       ELSE st.usedGeoIds \cup {g[1].id}])

\* MergeLoop that never marks a geographic record as used
RECURSIVE MergeLoopNoMark(_, _, _, _, _, _)
MergeLoopNoMark(socios, geos, geoIndex, thresholds, i, st) ==
    IF i > Len(socios) THEN st
    ELSE LET s == socios[i]
             g == MatchGeo(geos, geoIndex, s)
         IN  MergeLoopNoMark(socios, geos, geoIndex, thresholds, i + 1,
                 [st EXCEPT !.unified = Append(@, SocioPoint(s, g, thresholds))])

\* step 3, the loop over socioeconomic from row i on; st = [unified, usedGeoIds]
RECURSIVE MergeLoop(_, _, _, _, _, _)
MergeLoop(socios, geos, geoIndex, thresholds, i, st) ==
    IF i > Len(socios) THEN st
    ELSE LET s == socios[i]
             g == MatchGeo(geos, geoIndex, s)
         IN  MergeLoop(socios, geos, geoIndex, thresholds, i + 1,
                       [unified |-> Append(st.unified, SocioPoint(s, g, thresholds)),
                        usedGeoIds |-> IF g = <<>> THEN st.usedGeoIds
                                       ELSE st.usedGeoIds \cup {g[1].id}])

\* GeoOnlyLoop without the "continue" on a used id
RECURSIVE GeoOnlyLoopNoSkip(_, _, _)
GeoOnlyLoopNoSkip(geos, i, st) ==
    IF i > Len(geos) THEN st
    ELSE GeoOnlyLoopNoSkip(geos, i + 1,
                           [st EXCEPT !.unified = Append(@, GeoOnlyPoint(geos[i]))])

\* step 4, the loop over geographic from row i on
RECURSIVE GeoOnlyLoop(_, _, _)
GeoOnlyLoop(geos, i, st) ==
    IF i > Len(geos) THEN st
    ELSE GeoOnlyLoop(geos, i + 1,
                     IF geos[i].id \in st.usedGeoIds THEN st
                     ELSE [st EXCEPT !.unified = Append(@, GeoOnlyPoint(geos[i]))])

\* socioeconomic.map((r) => r.estimatedLossHousing || 0)
Losses(socios) == [i \in 1..Len(socios) |-> OrElse(socios[i].estimatedLossHousing, Num(0))]

joinPoints(socios, geos) ==
    LET thresholds == computeLossThresholds(Losses(socios))
        geoIndex == BuildGeoIndex(geos, 1, EmptyMap)
        merged == MergeLoop(socios, geos, geoIndex, thresholds, 1,
                            [unified |-> <<>>, usedGeoIds |-> {}])
        all == GeoOnlyLoop(geos, 1, merged)
    IN  [points |-> all.unified, thresholds |-> thresholds,
         usedGeoIds |-> all.usedGeoIds]

\* a projection that leaves out the points without a socioeconomic record
toMapImpactPointsOfSocio(points) ==
    LET kept == SelectSeq(points, LAMBDA p : p.socio # <<>>)
    IN  [i \in 1..Len(kept) |->
            [id |-> kept[i].id, lat |-> kept[i].lat, lng |-> kept[i].lng,
             type |-> "riesgo", severity |-> kept[i].lossRiskCategory,
             details |-> [title |-> <<"Riesgo por perdida de vivienda: ",
                                      kept[i].lossRiskCategory>>,
                          zone |-> kept[i].zone,
                          department |-> kept[i].department,
                          lossHousing |-> kept[i].lossHousing,
                          lossRiskCategory |-> kept[i].lossRiskCategory]]]

toMapImpactPoints(points) ==
    [i \in 1..Len(points) |->
        [id |-> points[i].id, lat |-> points[i].lat, lng |-> points[i].lng,
         type |-> "riesgo", severity |-> points[i].lossRiskCategory,
         details |-> [title |-> <<"Riesgo por perdida de vivienda: ",
                                  points[i].lossRiskCategory>>,
                      zone |-> points[i].zone,
                      department |-> points[i].department,
                      lossHousing |-> points[i].lossHousing,
                      lossRiskCategory |-> points[i].lossRiskCategory]]]

----------------------------------------------------------------------------
(* Datasets.  The literal tables are drawn from rows built by rec, as the   *)
(* source builds them; the coordinates are those of the source's tables or  *)
(* lie a few 1e-7 degree or about 150 m from them.                          *)

\* sizes of the tables
MaxSocio == 2
MaxGeo == 2
MaxLossRows == 4

\* SOC-001 / GEOG-001 (part_003:548, geographic.ts:279)
CoordA == [lat |-> -163942240, lng |-> -714693490]
\* 3e-7 degree north of A: another number, the same 6-decimal key
CoordA3 == [lat |-> -163942237, lng |-> -714693490]
\* 6e-7 degree south of A: another 6-decimal key, 7 cm away
CoordA6 == [lat |-> -163942246, lng |-> -714693490]
\* SOC-002 / GEOG-002 (part_003:549, geographic.ts:292): 122 m from A
CoordB == [lat |-> -163932020, lng |-> -714689260]
\* 0.0015 degree north of A: 167 m from A
CoordFar == [lat |-> -163927240, lng |-> -714693490]

SocioCoords == {CoordA, CoordA3, CoordA6, CoordB}
GeoCoords == {CoordA3, CoordFar}

\* the erosion and sediment statistics of GEOG-001, GEOG-004 and GEOG-012
\* (geographic.ts:283, 322, 426), whose hazard scores are alto, medio and bajo
GeoStats ==
    {[erosionSum |-> Num(-47295), erosionMean |-> Num(-1202), erosionStd |-> Num(15762),
      sedimentSum |-> Num(56184), sedimentMean |-> Num(1428), sedimentStd |-> Num(31584)],
     [erosionSum |-> Num(-8890), erosionMean |-> Num(-1751), erosionStd |-> Num(18924),
      sedimentSum |-> Num(2360), sedimentMean |-> Num(465), sedimentStd |-> Num(10716)],
     [erosionSum |-> Num(-1517), erosionMean |-> Num(-515), erosionStd |-> Num(7862),
      sedimentSum |-> Num(2078), sedimentMean |-> Num(706), sedimentStd |-> Num(14069)]}

\* estimated housing losses (1/100 sol): 0, 600, a negative amount, a missing value
\* and Infinity
LossValues == {Num(0), Num(60000), Num(-30000), Undefined, PosInf}

\* a geographic row at coordinate c with statistics t
GeoRow(idx, c, t) ==
    GeoRec(idx, c.lat, c.lng, "Asociacion Miguel Grau", "Arequipa",
           t.erosionSum, t.erosionMean, t.erosionStd,
           t.sedimentSum, t.sedimentMean, t.sedimentStd)

\* a socioeconomic row at coordinate c with loss l; the household is that of SOC-001
SocioRow(idx, c, l) ==
    SocioRec(idx, c.lat, c.lng, "Asociacion Los Olivos", "Arequipa", Num(0),
             Num(3), Num(0), Num(1), Num(1), Num(0), Num(0), Num(0),
             Num(1500), Num(0), Num(1), l)

NoRet == [fn |-> "none", val |-> <<>>]
NoArg == [fn |-> "none", val |-> <<>>]
NoThresholds == [tLow |-> Undefined, tMid |-> Undefined]

\* mapRef.current before the container is attached and after it is detached
Null == [k |-> "null", v |-> 0]

\* no MapViewer is rendered
NotRendered ==
    /\ impactPoints = <<>>
    /\ mapRef = Null
    /\ loading = TRUE
    /\ map = Undefined
    /\ polygon = Undefined
    /\ markers = <<>>
    /\ timeoutId = Undefined
    /\ initPc = "idle"
    /\ cleaned = FALSE
    /\ layers = {}
    /\ listeners = {}
    /\ timers = {}

\* the state once both dataset modules are evaluated and the join module is not
Loaded(socioeconomicRaw, geographicRaw) ==
    /\ socioeconomic = [i \in 1..Len(socioeconomicRaw) |-> SocioWithDerived(socioeconomicRaw[i])]
    /\ geographic = [i \in 1..Len(geographicRaw) |-> GeoWithDerived(geographicRaw[i])]
    /\ pc = "load"
    /\ unifiedPoints = <<>>
    /\ lossThresholds = NoThresholds
    /\ arg = NoArg
    /\ ret = NoRet
    /\ NotRendered

\* tables that vary in their coordinates and hazard statistics
InitCoords ==
    \E ns \in 0..MaxSocio, ng \in 0..MaxGeo :
      \E fs \in [1..ns -> SocioCoords], fg \in [1..ng -> GeoCoords \X GeoStats] :
        Loaded([i \in 1..ns |-> SocioRow(i, fs[i], Num(20000))],
               [i \in 1..ng |-> GeoRow(i, fg[i][1], fg[i][2])])

\* tables that vary in their losses: every household at A, a geographic record
\* 3e-7 degree from A and one 167 m away
InitLosses ==
    \E ns \in 0..MaxLossRows :
      \E fl \in [1..ns -> LossValues] :
        Loaded([i \in 1..ns |-> SocioRow(i, CoordA, fl[i])],
               LET t == CHOOSE x \in GeoStats : x.erosionSum = Num(-8890)
               IN  <<GeoRow(1, CoordA3, t), GeoRow(2, CoordFar, t)>>)

Init == InitCoords \/ InitLosses

\* part_003:190, the module-level call of joinPoints()
JoinPoints ==
    /\ pc = "load"
    /\ LET j == joinPoints(socioeconomic, geographic)
       IN  /\ unifiedPoints' = j.points
           /\ lossThresholds' = j.thresholds
    /\ pc' = "ready"
    /\ UNCHANGED <<viewerVars, socioeconomic, geographic, arg, ret>>

\* toMapImpactPoints() and toMapImpactPoints(getUnifiedPoints())
ToMapImpactPoints ==
    /\ pc = "ready"
    /\ ret' = [fn |-> "toMapImpactPoints", val |-> toMapImpactPoints(unifiedPoints)]
    /\ UNCHANGED <<viewerVars, socioeconomic, geographic, pc, unifiedPoints, lossThresholds, arg>>

Next == JoinPoints \/ ToMapImpactPoints

Spec == Init /\ [][Next]_vars

----------------------------------------------------------------------------
(* Calls of the exported pure functions.  arg holds the argument of the     *)
(* call, ret the name of the function that ran and what it returned.        *)

\* a caller about to call with argument a; no table plays a part
Calling(a) ==
    /\ socioeconomic = <<>>
    /\ geographic = <<>>
    /\ pc = "call"
    /\ unifiedPoints = <<>>
    /\ lossThresholds = NoThresholds
    /\ arg = a
    /\ ret = NoRet
    /\ NotRendered

\* the call of f on the argument
Return(name, v) ==
    /\ pc' = "done"
    /\ ret' = [fn |-> name, val |-> v]
    /\ UNCHANGED <<viewerVars, socioeconomic, geographic, unifiedPoints, lossThresholds, arg>>

\* scores (1e-4) from ScoreMargin below 0 to ScoreMargin above 100: every integer
\* score and the values 1e-4 below and above it; and the values that are no
\* finite number
ScoreMargin == 3
ScoreValues ==
    {Num(v * 10000 + d) : v \in (0 - ScoreMargin)..(100 + ScoreMargin), d \in {-1, 0, 1}}
        \cup {PosInf, NegInf, NaN, Undefined}

InitScore == \E s \in ScoreValues : Calling([fn |-> "score", val |-> s])

ScoreToCategory ==
    /\ pc = "call" /\ arg.fn = "score"
    /\ Return("scoreToCategory", scoreToCategory(arg.val))

RiskCategoryFromScore ==
    /\ pc = "call" /\ arg.fn = "score"
    /\ Return("riskCategoryFromScore", riskCategoryFromScore(arg.val))

\* the geographic record handed to inferLossRiskForGeoOnly is read for its
\* hazardScore only
InferLossRiskForGeoOnly ==
    /\ pc = "call" /\ arg.fn = "score"
    /\ Return("inferLossRiskForGeoOnly",
              inferLossRiskForGeoOnly([hazardScore |-> arg.val]))

NextScore == ScoreToCategory \/ RiskCategoryFromScore \/ InferLossRiskForGeoOnly

SpecScore == InitScore /\ [][NextScore]_vars

\* raw geographic records: per field a value of the tables, an extreme one, a
\* missing or NaN one and an infinite one
GeoFieldValues ==
    [erosionSum |-> {Num(-47295), Num(0), NaN, NegInf},
     erosionMean |-> {Num(-1202), Num(-9000), Undefined, PosInf},
     erosionStd |-> {Num(15762), Num(-60000), NaN, PosInf},
     sedimentSum |-> {Num(56184), Num(200000), Undefined, PosInf},
     sedimentMean |-> {Num(1428), Num(0), NaN, NegInf},
     sedimentStd |-> {Num(31584), Num(0), Undefined, NegInf}]

GeoInputs ==
    {GeoRec(1, CoordA.lat, CoordA.lng, "Asociacion Miguel Grau", "Arequipa",
            es, em, ed, ss, sm, sd) :
        es \in GeoFieldValues.erosionSum, em \in GeoFieldValues.erosionMean,
        ed \in GeoFieldValues.erosionStd, ss \in GeoFieldValues.sedimentSum,
        sm \in GeoFieldValues.sedimentMean, sd \in GeoFieldValues.sedimentStd}

\* raw socioeconomic records: counts and income that are typical, zero, negative,
\* missing, NaN or infinite
SocioFieldValues ==
    [householdSize |-> {Num(3), Num(0), Num(-2), Undefined, PosInf},
     elders65 |-> {Num(0), Num(2), PosInf, NaN},
     childrenUnder10 |-> {Num(1), NegInf, Undefined},
     healthInsuranceCount |-> {Num(1), Num(0), NaN},
     chronicConditionCount |-> {Num(0), Num(5), PosInf},
     higherEducationCount |-> {Num(0), Num(3), NegInf},
     illiterateCount |-> {Num(0), Num(-1), Undefined},
     monthlyIncome |-> {Num(1500), Num(0), Num(-100), PosInf, NegInf, NaN}]

SocioInputs ==
    {SocioRec(1, CoordA.lat, CoordA.lng, "Asociacion Los Olivos", "Arequipa", Num(0),
              hs, el, ch, hi, cc, he, il, mi, Num(0), Num(1), Num(20000)) :
        hs \in SocioFieldValues.householdSize, el \in SocioFieldValues.elders65,
        ch \in SocioFieldValues.childrenUnder10,
        hi \in SocioFieldValues.healthInsuranceCount,
        cc \in SocioFieldValues.chronicConditionCount,
        he \in SocioFieldValues.higherEducationCount,
        il \in SocioFieldValues.illiterateCount,
        mi \in SocioFieldValues.monthlyIncome}

InitDerived ==
    \/ \E r \in GeoInputs : Calling([fn |-> "geographic", val |-> r])
    \/ \E r \in SocioInputs : Calling([fn |-> "socioeconomic", val |-> r])

\* computeDerived of geographic.ts
GeoComputeDerivedCall ==
    /\ pc = "call" /\ arg.fn = "geographic"
    /\ Return("geographic.computeDerived", GeoComputeDerived(arg.val))

\* computeDerived of the socioeconomic module
SocioComputeDerivedCall ==
    /\ pc = "call" /\ arg.fn = "socioeconomic"
    /\ Return("socioeconomic.computeDerived", SocioComputeDerived(arg.val))

NextDerived == GeoComputeDerivedCall \/ SocioComputeDerivedCall

SpecDerived == InitDerived /\ [][NextDerived]_vars

\* a computeDerived that keeps a flag of having run: from the second call on the
\* hazard score is 0
GeoComputeDerivedOnceOnly(r, earlier) == [GeoComputeDerived(r) EXCEPT !.hazardScore = Num(0)]

\* computeDerived(r) called after a call that returned `earlier`: both functions
\* read r and literals only, and there is no module variable they write
GeoComputeDerivedAfter(r, earlier) == GeoComputeDerived(r)

SocioComputeDerivedAfter(r, earlier) == SocioComputeDerived(r)

\* the second call of computeDerived on the same record; the first result is kept
\* beside the second
GeoComputeDerivedAgain ==
    /\ pc = "done" /\ arg.fn = "geographic"
    /\ pc' = "again"
    /\ ret' = [fn |-> ret.fn, val |-> GeoComputeDerivedAfter(arg.val, ret.val),
               first |-> ret.val]
    /\ UNCHANGED <<viewerVars, socioeconomic, geographic, unifiedPoints, lossThresholds, arg>>

SocioComputeDerivedAgain ==
    /\ pc = "done" /\ arg.fn = "socioeconomic"
    /\ pc' = "again"
    /\ ret' = [fn |-> ret.fn, val |-> SocioComputeDerivedAfter(arg.val, ret.val),
               first |-> ret.val]
    /\ UNCHANGED <<viewerVars, socioeconomic, geographic, unifiedPoints, lossThresholds, arg>>

NextTwice ==
    \/ GeoComputeDerivedCall
    \/ SocioComputeDerivedCall
    \/ GeoComputeDerivedAgain
    \/ SocioComputeDerivedAgain

SpecTwice == InitDerived /\ [][NextTwice]_vars

\* erosion and sediment sums (1e-3) up to DominanceMargin either side of 0, where
\* the 10% margin decides (10 against 11 and 12), and the values that are no
\* finite number
DominanceMargin == 12
DominanceValues ==
    {Num(v) : v \in (0 - DominanceMargin)..DominanceMargin}
        \cup {PosInf, NegInf, NaN, Undefined}

InitDominance ==
    \E es \in DominanceValues, ss \in DominanceValues :
        Calling([fn |-> "geographic",
                 val |-> GeoRec(1, CoordA.lat, CoordA.lng, "Asociacion Miguel Grau",
                                "Arequipa", es, Num(-1202), Num(15762), ss, Num(1428),
                                Num(31584))])

NextDominance == GeoComputeDerivedCall

SpecDominance == InitDominance /\ [][NextDominance]_vars

\* lists of rows handed to aggregateByZone: up to MaxZoneRows rows, each raw or
\* already enriched, in one of three zones whose names differ by case or by a
\* trailing space only
MaxZoneRows == 3
ZoneNames == {"Asociacion Los Olivos", "asociacion los olivos", "Asociacion Los Olivos "}

\* the statistics of GEOG-001 (alto) and GEOG-012 (bajo)
ZoneGeoStats == {t \in GeoStats : t.erosionSum \in {Num(-47295), Num(-1517)}}

GeoZoneRows ==
    LET Raw(z, t) == GeoRec(1, CoordA.lat, CoordA.lng, z, "Arequipa",
                            t.erosionSum, t.erosionMean, t.erosionStd,
                            t.sedimentSum, t.sedimentMean, t.sedimentStd)
    IN  {Raw(z, t) : z \in ZoneNames, t \in ZoneGeoStats}
        \cup {GeoWithDerived(Raw(z, t)) : z \in ZoneNames, t \in ZoneGeoStats}

\* the households of SOC-001 (income 1500, insured) and one of six without income
\* or insurance
SocioZoneRows ==
    LET Raw(z, h) == SocioRec(1, CoordA.lat, CoordA.lng, z, "Arequipa", Num(0),
                              h[1], Num(0), Num(1), h[2], Num(0), Num(0), Num(0),
                              h[3], Num(0), Num(1), Num(20000))
        Households == {<<Num(3), Num(1), Num(1500)>>, <<Num(6), Num(0), Num(0)>>}
    IN  {Raw(z, h) : z \in ZoneNames, h \in Households}
        \cup {SocioWithDerived(Raw(z, h)) : z \in ZoneNames, h \in Households}

InitZone ==
    \E n \in 0..MaxZoneRows :
      \/ \E rows \in [1..n -> GeoZoneRows] :
           Calling([fn |-> "geographic", val |-> rows])
      \/ \E rows \in [1..n -> SocioZoneRows] :
           Calling([fn |-> "socioeconomic", val |-> rows])

\* aggregateByZone of geographic.ts
GeoAggregateByZoneCall ==
    /\ pc = "call" /\ arg.fn = "geographic"
    /\ Return("geographic.aggregateByZone", GeoAggregateByZone(arg.val))

\* aggregateByZone of the socioeconomic module
SocioAggregateByZoneCall ==
    /\ pc = "call" /\ arg.fn = "socioeconomic"
    /\ Return("socioeconomic.aggregateByZone", SocioAggregateByZone(arg.val))

\* toGeoJSON of geographic.ts
GeoToGeoJSONCall ==
    /\ pc = "call" /\ arg.fn = "geographic"
    /\ Return("geographic.toGeoJSON", GeoToGeoJSON(arg.val))

\* toGeoJSON of the socioeconomic module
SocioToGeoJSONCall ==
    /\ pc = "call" /\ arg.fn = "socioeconomic"
    /\ Return("socioeconomic.toGeoJSON", SocioToGeoJSON(arg.val))

NextZone ==
    \/ GeoAggregateByZoneCall
    \/ SocioAggregateByZoneCall
    \/ GeoToGeoJSONCall
    \/ SocioToGeoJSONCall

SpecZone == InitZone /\ [][NextZone]_vars

----------------------------------------------------------------------------
(* Calls of the lookup helpers of the join module after it is loaded, by a  *)
(* caller that also holds a raw record (arg).                                *)

\* sizes of the socioeconomic table of the callers' runs
MaxCallRows == 2

\* the raw records a caller holds: GEOG-001 and SOC-001
CallerRows ==
    {[fn |-> "geographic",
      val |-> GeoRow(1, CoordA, CHOOSE t \in GeoStats : t.erosionSum = Num(-47295))],
     [fn |-> "socioeconomic", val |-> SocioRow(1, CoordA, Num(20000))]}

\* tables of up to MaxCallRows households at A or B with a loss of 0 or 600, a
\* geographic record 3e-7 degree from A and one 167 m away
InitCalls ==
    \E ns \in 0..MaxCallRows :
      \E fs \in [1..ns -> {CoordA, CoordB} \X {Num(0), Num(60000)}], a \in CallerRows :
        /\ socioeconomic = [i \in 1..ns |-> SocioWithDerived(SocioRow(i, fs[i][1], fs[i][2]))]
        /\ geographic =
              <<GeoWithDerived(GeoRow(1, CoordA3,
                                      CHOOSE t \in GeoStats : t.erosionSum = Num(-47295))),
                GeoWithDerived(GeoRow(2, CoordFar,
                                      CHOOSE t \in GeoStats : t.erosionSum = Num(-1517)))>>
        /\ pc = "load"
        /\ unifiedPoints = <<>>
        /\ lossThresholds = NoThresholds
        /\ arg = a
        /\ ret = NoRet
        /\ NotRendered

\* the ids a caller may ask for: some of points, some of no point
LookupIds == {<<"SOC", i>> : i \in 1..(MaxCallRows + 1)} \cup {<<"GEOG", i>> : i \in 1..3}

\* unifiedPoints.find((p) => p.id === id): <<>> is undefined
getUnifiedPointById(points, id) ==
    IF \E i \in DOMAIN points : points[i].id = id
    THEN <<points[CHOOSE i \in DOMAIN points :
                     /\ points[i].id = id
                     /\ \A j \in 1..(i - 1) : points[j].id # id]>>
    ELSE <<>>

\* getUnifiedPoints()
GetUnifiedPoints ==
    /\ pc = "ready"
    /\ ret' = [fn |-> "getUnifiedPoints", val |-> unifiedPoints]
    /\ UNCHANGED <<viewerVars, socioeconomic, geographic, pc, unifiedPoints, lossThresholds, arg>>

\* getLossThresholds()
GetLossThresholds ==
    /\ pc = "ready"
    /\ ret' = [fn |-> "getLossThresholds", val |-> lossThresholds]
    /\ UNCHANGED <<viewerVars, socioeconomic, geographic, pc, unifiedPoints, lossThresholds, arg>>

\* GetUnifiedPointById that takes the point found out of the list
GetUnifiedPointByIdRemoving ==
    /\ pc = "ready"
    /\ \E id \in LookupIds :
         /\ ret' = [fn |-> "getUnifiedPointById",
                    val |-> getUnifiedPointById(unifiedPoints, id), id |-> id]
         /\ unifiedPoints' = SelectSeq(unifiedPoints, LAMBDA p : p.id # id)
    /\ UNCHANGED <<viewerVars, socioeconomic, geographic, pc, lossThresholds, arg>>

\* getUnifiedPointById(id)
GetUnifiedPointById ==
    /\ pc = "ready"
    /\ \E id \in LookupIds :
         ret' = [fn |-> "getUnifiedPointById",
                 val |-> getUnifiedPointById(unifiedPoints, id), id |-> id]
    /\ UNCHANGED <<viewerVars, socioeconomic, geographic, pc, unifiedPoints, lossThresholds, arg>>

\* a call of an engine function that leaves every table and the caller's record
\* as they are
ReadOnlyCall(name, v) ==
    /\ pc = "ready"
    /\ ret' = [fn |-> name, val |-> v]
    /\ UNCHANGED <<viewerVars, socioeconomic, geographic, pc, unifiedPoints, lossThresholds, arg>>

\* computeDerived(r) on the caller's raw record
ComputeDerivedOfRow ==
    \/ arg.fn = "geographic"
         /\ ReadOnlyCall("geographic.computeDerived", GeoComputeDerived(arg.val))
    \/ arg.fn = "socioeconomic"
         /\ ReadOnlyCall("socioeconomic.computeDerived", SocioComputeDerived(arg.val))

\* withDerived(r) of geographic.ts on the caller's raw record
GeoWithDerivedOfRow ==
    /\ pc = "ready" /\ arg.fn = "geographic"
    /\ ret' = [fn |-> "geographic.withDerived", val |-> GeoWithDerived(arg.val)]
    /\ arg' = [arg EXCEPT !.val = GeoWithDerivedLeaves(arg.val)]
    /\ UNCHANGED <<viewerVars, socioeconomic, geographic, pc, unifiedPoints, lossThresholds>>

\* withDerived(r) of the socioeconomic module on the caller's raw record
SocioWithDerivedOfRow ==
    /\ arg.fn = "socioeconomic"
    /\ ReadOnlyCall("socioeconomic.withDerived", SocioWithDerived(arg.val))

\* aggregateByZone(geographic), aggregateByZone(socioeconomic)
AggregateExported ==
    \/ ReadOnlyCall("geographic.aggregateByZone", GeoAggregateByZone(geographic))
    \/ ReadOnlyCall("socioeconomic.aggregateByZone", SocioAggregateByZone(socioeconomic))

\* toGeoJSON(geographic), toGeoJSON(socioeconomic)
ToGeoJSONExported ==
    \/ ReadOnlyCall("geographic.toGeoJSON", GeoToGeoJSON(geographic))
    \/ ReadOnlyCall("socioeconomic.toGeoJSON", SocioToGeoJSON(socioeconomic))

\* lists of unified points a caller may pass: the stored list from any point on
\* (the empty list included) and the stored list backwards
CallerLists(points) ==
    {SubSeq(points, k, Len(points)) : k \in 1..(Len(points) + 1)}
        \cup {[i \in 1..Len(points) |-> points[Len(points) + 1 - i]]}

\* toMapImpactPoints(points) on a list of the caller
ToMapImpactPointsOfList ==
    /\ pc = "ready"
    /\ \E points \in CallerLists(unifiedPoints) :
         ret' = [fn |-> "toMapImpactPoints(points)",
                 val |-> toMapImpactPoints(points), points |-> points]
    /\ UNCHANGED <<viewerVars, socioeconomic, geographic, pc, unifiedPoints, lossThresholds, arg>>

NextCalls ==
    \/ JoinPoints
    \/ GetUnifiedPoints
    \/ GetLossThresholds
    \/ GetUnifiedPointById
    \/ ToMapImpactPoints
    \/ ComputeDerivedOfRow
    \/ GeoWithDerivedOfRow
    \/ SocioWithDerivedOfRow
    \/ AggregateExported
    \/ ToGeoJSONExported
    \/ ToMapImpactPointsOfList

SpecCalls == InitCalls /\ [][NextCalls]_vars

\* points for haversineMeters: SOC-001 and the points up to DistanceSteps
\* thousandths of a degree north, south, east or west of it, and 1e-7 degree off
DistanceSteps == 1
DistancePoints ==
    {[lat |-> CoordA.lat + dy, lng |-> CoordA.lng + dx] :
        dy \in {k * 10000 : k \in (0 - DistanceSteps)..DistanceSteps} \cup {1},
        dx \in {k * 10000 : k \in (0 - DistanceSteps)..DistanceSteps}}

InitDistance ==
    \E a \in DistancePoints, b \in DistancePoints :
        Calling([fn |-> "points", val |-> <<a, b>>])

\* haversineMeters(a, b)
HaversineMeters ==
    /\ pc = "call" /\ arg.fn = "points"
    /\ Return("haversineMeters", haversineMeters(arg.val[1], arg.val[2]))

NextDistance == HaversineMeters

SpecDistance == InitDistance /\ [][NextDistance]_vars

----------------------------------------------------------------------------
(* IEEE 754 double arithmetic, for the interpolation of computeLossThresholds. *)
(* The join above computes the thresholds in exact arithmetic cut to 1/100;    *)
(* here every multiplication, subtraction and addition rounds to 53 bits, to    *)
(* the nearest, ties to even, as JavaScript numbers do.  Only finite numbers    *)
(* >= 0 in the normal range occur.                                              *)

RECURSIVE Pow2(_)
Pow2(k) == IF k = 0 THEN 1 ELSE 2 * Pow2(k - 1)

\* the number of bits of n >= 0
RECURSIVE BitLen(_)
BitLen(n) == IF n = 0 THEN 0 ELSE 1 + BitLen(n \div 2)

\* a natural number as limbs of 14 bits, the least significant first, the last
\* limb not 0; <<>> is 0
RECURSIVE BigTrim(_)
BigTrim(a) ==
    IF a = <<>> THEN <<>>
    ELSE IF a[Len(a)] = 0 THEN BigTrim(SubSeq(a, 1, Len(a) - 1))
    ELSE a

RECURSIVE BigFromInt(_)
BigFromInt(n) == IF n = 0 THEN <<>> ELSE <<n % 16384>> \o BigFromInt(n \div 16384)

RECURSIVE BigToInt(_)
BigToInt(a) == IF a = <<>> THEN 0 ELSE a[1] + 16384 * BigToInt(Tail(a))

RECURSIVE BigAddCarry(_, _, _)
BigAddCarry(a, b, c) ==
    IF a = <<>> /\ b = <<>> THEN (IF c = 0 THEN <<>> ELSE <<c>>)
    ELSE LET x == IF a = <<>> THEN 0 ELSE a[1]
             y == IF b = <<>> THEN 0 ELSE b[1]
             t == x + y + c
         IN  <<t % 16384>> \o BigAddCarry(IF a = <<>> THEN <<>> ELSE Tail(a),
                                          IF b = <<>> THEN <<>> ELSE Tail(b),
                                          t \div 16384)
BigAdd(a, b) == BigAddCarry(a, b, 0)

\* a - b for a >= b
RECURSIVE BigSubBorrow(_, _, _)
BigSubBorrow(a, b, c) ==
    IF a = <<>> THEN <<>>
    ELSE LET y == IF b = <<>> THEN 0 ELSE b[1]
             t == a[1] - y - c
         IN  <<IF t < 0 THEN t + 16384 ELSE t>>
                 \o BigSubBorrow(Tail(a), IF b = <<>> THEN <<>> ELSE Tail(b),
                                 IF t < 0 THEN 1 ELSE 0)
BigSub(a, b) == BigTrim(BigSubBorrow(a, b, 0))

\* -1, 0 or 1 as a < b, a = b or a > b
RECURSIVE BigCmpFrom(_, _, _)
BigCmpFrom(a, b, i) ==
    IF i = 0 THEN 0
    ELSE IF a[i] < b[i] THEN -1
    ELSE IF a[i] > b[i] THEN 1
    ELSE BigCmpFrom(a, b, i - 1)
BigCmp(a, b) ==
    IF Len(a) < Len(b) THEN -1
    ELSE IF Len(a) > Len(b) THEN 1
    ELSE BigCmpFrom(a, b, Len(a))

\* a * k for 0 <= k < 2^14
RECURSIVE BigMulSmallCarry(_, _, _)
BigMulSmallCarry(a, k, c) ==
    IF a = <<>> THEN (IF c = 0 THEN <<>> ELSE <<c>>)
    ELSE LET t == a[1] * k + c
         IN  <<t % 16384>> \o BigMulSmallCarry(Tail(a), k, t \div 16384)
BigMulSmall(a, k) == IF k = 0 THEN <<>> ELSE BigMulSmallCarry(a, k, 0)

\* a * 2^s
BigShl(a, s) ==
    IF a = <<>> THEN <<>>
    ELSE [i \in 1..(s \div 14) |-> 0] \o BigMulSmall(a, Pow2(s % 14))

RECURSIVE BigMul(_, _)
BigMul(a, b) ==
    IF a = <<>> \/ b = <<>> THEN <<>>
    ELSE BigAdd(BigMulSmall(b, a[1]),
                LET rest == BigMul(Tail(a), b)
                IN  IF rest = <<>> THEN <<>> ELSE <<0>> \o rest)

\* quotient and remainder of a by 0 < d <= 2^16, from limb i down with remainder r
RECURSIVE BigDivSmallFrom(_, _, _, _)
BigDivSmallFrom(a, d, i, r) ==
    IF i = 0 THEN [q |-> <<>>, r |-> r]
    ELSE LET t == r * 16384 + a[i]
             lower == BigDivSmallFrom(a, d, i - 1, t % d)
         IN  [q |-> lower.q \o <<t \div d>>, r |-> lower.r]
BigDivSmall(a, d) ==
    LET qr == BigDivSmallFrom(a, d, Len(a), 0)
    IN  [q |-> BigTrim(qr.q), r |-> qr.r]

\* the floor of a / 2^s
BigShr(a, s) ==
    IF s \div 14 >= Len(a) THEN <<>>
    ELSE BigDivSmall(SubSeq(a, s \div 14 + 1, Len(a)), Pow2(s % 14)).q

BigBitLen(a) == IF a = <<>> THEN 0 ELSE 14 * (Len(a) - 1) + BitLen(a[Len(a)])

\* a double >= 0: m * 2^e with m of exactly 53 bits, or 0
F64Zero == [m |-> <<>>, e |-> 0]

\* n * 2^e rounded to 53 bits, to the nearest, ties to even; sticky says that the
\* exact value is a little more than n * 2^e (less than one unit of n more)
F64Round(n, e, sticky) ==
    LET len == BigBitLen(n) IN
    IF n = <<>> THEN F64Zero
    ELSE IF len <= 53 THEN [m |-> BigShl(n, 53 - len), e |-> e - (53 - len)]
    ELSE LET s == len - 53
             q == BigShr(n, s)
             low == BigSub(n, BigShl(q, s))
             c == BigCmp(low, BigShl(<<1>>, s - 1))
             up == c = 1 \/ (c = 0 /\ (sticky \/ q[1] % 2 = 1))
             q1 == IF up THEN BigAdd(q, <<1>>) ELSE q
         IN  IF BigBitLen(q1) = 54 THEN [m |-> BigShr(q1, 1), e |-> e + s + 1]
             ELSE [m |-> q1, e |-> e + s]

\* the number of an integer n >= 0
F64FromInt(n) == F64Round(BigFromInt(n), 0, FALSE)

\* the double nearest to c / d, as a decimal literal is read; 0 < d <= 2^16
F64FromRatio(c, d) ==
    IF c = 0 THEN F64Zero
    ELSE LET qr == BigDivSmall(BigShl(BigFromInt(c), 70), d)
         IN  F64Round(qr.q, -70, qr.r # 0)

Min2(x, y) == IF x < y THEN x ELSE y

\* a * b
F64Mul(a, b) ==
    IF a.m = <<>> \/ b.m = <<>> THEN F64Zero
    ELSE F64Round(BigMul(a.m, b.m), a.e + b.e, FALSE)

\* a + b
F64Add(a, b) ==
    IF a.m = <<>> THEN b
    ELSE IF b.m = <<>> THEN a
    ELSE LET e == Min2(a.e, b.e)
         IN  F64Round(BigAdd(BigShl(a.m, a.e - e), BigShl(b.m, b.e - e)), e, FALSE)

\* -1, 0 or 1 as a < b, a = b or a > b
F64Cmp(a, b) ==
    IF a.m = <<>> THEN (IF b.m = <<>> THEN 0 ELSE -1)
    ELSE IF b.m = <<>> THEN 1
    ELSE LET e == Min2(a.e, b.e)
         IN  BigCmp(BigShl(a.m, a.e - e), BigShl(b.m, b.e - e))

F64Le(a, b) == F64Cmp(a, b) <= 0

\* a - b for a >= b
F64Sub(a, b) ==
    IF b.m = <<>> THEN a
    ELSE LET e == Min2(a.e, b.e)
         IN  F64Round(BigSub(BigShl(a.m, a.e - e), BigShl(b.m, b.e - e)), e, FALSE)

\* Math.floor(a), an integer
F64Floor(a) ==
    IF a.m = <<>> THEN 0
    ELSE IF a.e >= 0 THEN BigToInt(BigShl(a.m, a.e))
    ELSE BigToInt(BigShr(a.m, 0 - a.e))

\* Math.ceil(a) = Math.floor(a): a is an integer
F64IsInteger(a) == F64Cmp(a, F64FromInt(F64Floor(a))) = 0


\* q(p) of computeLossThresholds in double arithmetic; xs is sorted and not
\* empty, p is the double of the literal 0.33 or 0.66
QuantileF64(xs, p) ==
    LET idx == F64Mul(F64FromInt(Len(xs) - 1), p)
        lo == F64Floor(idx)
        w == F64Sub(idx, F64FromInt(lo))
    IN  IF F64IsInteger(idx) THEN xs[lo + 1]
        ELSE F64Add(F64Mul(xs[lo + 1], F64Sub(F64FromInt(1), w)),
                    F64Mul(xs[lo + 2], w))

\* computeLossThresholds on losses given in 1/100 (S/. with two decimals, each
\* the double nearest to it); sorting the losses before or after reading them
\* as doubles gives the same order
computeLossThresholdsF64(values) ==
    LET sorted == SortAsc(FilterFinite(values))
        xs == [i \in 1..Len(sorted) |-> F64FromRatio(sorted[i].v, 100)]
    IN  IF Len(xs) < MinSample
        THEN [tLow |-> F64FromInt(StaticTLow), tMid |-> F64FromInt(StaticTMid)]
        ELSE [tLow |-> QuantileF64(xs, F64FromRatio(P33, 100)),
              tMid |-> QuantileF64(xs, F64FromRatio(P66, 100))]

\* riskCategoryFromLoss on a finite loss, in doubles
riskCategoryFromLossF64(loss, tLow, tMid) ==
    IF F64Le(loss, tLow) THEN "bajo"
    ELSE IF F64Le(loss, tMid) THEN "medio"
    ELSE "alto"

\* lists of up to MaxThresholdRows losses of S/. 0.43, 0.85 and 200.00; one row
\* fewer than MinSample gives the fallback
MaxThresholdRows == 5
ThresholdLosses == {Num(43), Num(85), Num(20000)}

InitThresholds ==
    \E n \in (MinSample - 1)..MaxThresholdRows :
        \E losses \in [1..n -> ThresholdLosses] :
            Calling([fn |-> "losses", val |-> losses])

\* computeLossThresholds(losses)
ComputeLossThresholds ==
    /\ pc = "call" /\ arg.fn = "losses"
    /\ Return("computeLossThresholds", computeLossThresholdsF64(arg.val))

NextThresholds == ComputeLossThresholds

SpecThresholds == InitThresholds /\ [][NextThresholds]_vars

----------------------------------------------------------------------------
(* MapViewer (src/components/map-viewer.tsx).  One rendered MapViewer and  *)
(* the one run of its effect: the effect calls init, which stops at the    *)
(* await of the leaflet import and runs to its end when the import has     *)
(* resolved; tile events, the timer and the cleanup run in between, each   *)
(* to completion.  An effect that React runs after the cleanup has its own *)
(* map, polygon, markers and timeoutId and is another run of this model.   *)

\* the div of line 140, attached to mapRef
Container == [k |-> "element", v |-> 0]

\* if (x) of a number or undefined
Truthy(x) == (x.k = "num" /\ x.v # 0) \/ x.k = "inf"

\* a Leaflet map or layer: its kind, its number among its kind, the class of its
\* icon
Layer(kind, n, icon) == [layer |-> kind, n |-> n, icon |-> icon]

\* L.map(mapRef.current, {center, zoom}) of line 43
LMap == Layer("map", 1, "")
\* L.tileLayer(...).addTo(map) of line 49
LTileLayer == Layer("tiles", 1, "")
\* L.polygon(polygonCoords, ...).addTo(map) of line 79
LPolygon == Layer("polygon", 1, "")

\* iconForSeverity: the background class of the marker's icon
iconForSeverity(severity) ==
    IF severity = "alto" THEN "bg-red-500"
    ELSE IF severity = "medio" THEN "bg-yellow-500"
    ELSE "bg-green-500"

\* L.marker([p.lat, p.lng], {icon: iconForSeverity(p.severity)}) of the i-th point
LMarker(i, p) == Layer("marker", i, iconForSeverity(p.severity))

\* const points: the prop when it has points, else toMapImpactPoints()
PointsToDraw ==
    IF Len(impactPoints) > 0 THEN impactPoints ELSE toMapImpactPoints(unifiedPoints)

\* finishLoading that cancels the timer and leaves the loading state as it is
finishLoadingKeepsLoading(id, pending) ==
    [loading |-> loading,
     timers |-> IF Truthy(id) THEN pending \ {id.v} ELSE pending]

\* finishLoading, run when timeoutId is id and the timers of pending are pending:
\* the loading state and the pending timers afterwards
finishLoading(id, pending) ==
    [loading |-> FALSE,
     timers |-> IF Truthy(id) THEN pending \ {id.v} ELSE pending]

\* the id window.setTimeout returns: a positive integer no pending timer has
SetTimeout(pending) ==
    CHOOSE id \in 1..(Cardinality(pending) + 1) :
        /\ id \notin pending
        /\ \A other \in 1..(id - 1) : other \in pending

MaxViewerRows == 2

\* a points prop of one alto point
GivenPoints ==
    toMapImpactPoints(
        <<GeoOnlyPoint(GeoWithDerived(
              GeoRow(2, CoordFar, CHOOSE t \in GeoStats : t.erosionSum = Num(-47295))))>>)

\* MapViewer is rendered, its container attached and its effect not yet run; the
\* modules are evaluated on tables of up to MaxViewerRows households at A with a
\* loss of 0 or 600 and one geographic record; the prop has no point or one
InitViewer ==
    \E ns \in 0..MaxViewerRows :
      \E fl \in [1..ns -> {Num(0), Num(60000)}], given \in {<<>>, GivenPoints} :
        LET rows == [i \in 1..ns |-> SocioWithDerived(SocioRow(i, CoordA, fl[i]))]
            records == <<GeoWithDerived(
                            GeoRow(1, CoordA3,
                                   CHOOSE t \in GeoStats : t.erosionSum = Num(-8890)))>>
            j == joinPoints(rows, records)
        IN  /\ socioeconomic = rows
            /\ geographic = records
            /\ pc = "ready"
            /\ unifiedPoints = j.points
            /\ lossThresholds = j.thresholds
            /\ arg = NoArg
            /\ ret = NoRet
            /\ impactPoints = given
            /\ mapRef = Container
            /\ loading = TRUE
            /\ map = Undefined
            /\ polygon = Undefined
            /\ markers = <<>>
            /\ timeoutId = Undefined
            /\ initPc = "idle"
            /\ cleaned = FALSE
            /\ layers = {}
            /\ listeners = {}
            /\ timers = {}

dataVars == <<socioeconomic, geographic, pc, unifiedPoints, lossThresholds, arg, ret>>

\* the effect runs (line 119): init is called and runs up to the await of line 39
UseEffect ==
    /\ initPc = "idle"
    /\ initPc' = "import"
    /\ UNCHANGED <<dataVars, impactPoints, mapRef, loading, map, polygon, markers,
                   timeoutId, cleaned, layers, listeners, timers>>

\* the import has resolved and init runs from line 40 to its end.  The map is made
\* with a center and a zoom, so it has its view when whenReady is called and
\* whenReady runs finishLoading at once, before the timer of line 67 is set.
InitResumes ==
    /\ initPc = "import"
    /\ initPc' = "end"
    /\ IF mapRef = Null
       THEN UNCHANGED <<loading, map, polygon, markers, timeoutId, layers, listeners,
                        timers>>
       ELSE LET ready == finishLoading(timeoutId, timers)
                id == SetTimeout(ready.timers)
                points == PointsToDraw
                made == [i \in 1..Len(points) |-> LMarker(i, points[i])]
            IN  /\ map' = LMap
                /\ listeners' = listeners \cup {"tiles.load"}
                /\ loading' = ready.loading
                /\ timeoutId' = Num(id)
                /\ timers' = ready.timers \cup {id}
                /\ polygon' = LPolygon
                /\ markers' = markers \o made
                /\ layers' = layers \cup {LMap, LTileLayer, LPolygon}
                                    \cup {made[i] : i \in DOMAIN made}
    /\ UNCHANGED <<dataVars, impactPoints, mapRef, cleaned>>

\* the tile layer, still on its map, fires "load": the listener of line 63 runs once
TilesLoad ==
    /\ "tiles.load" \in listeners
    /\ LTileLayer \in layers
    /\ listeners' = listeners \ {"tiles.load"}
    /\ LET done == finishLoading(timeoutId, timers)
       IN  /\ loading' = done.loading
           /\ timers' = done.timers
    /\ UNCHANGED <<dataVars, impactPoints, mapRef, map, polygon, markers, timeoutId,
                   initPc, cleaned, layers>>

\* a pending timer of line 67 expires and runs finishLoading
TimerFires ==
    /\ \E id \in timers :
         LET done == finishLoading(timeoutId, timers \ {id})
         IN  /\ loading' = done.loading
             /\ timers' = done.timers
    /\ UNCHANGED <<dataVars, impactPoints, mapRef, map, polygon, markers, timeoutId,
                   initPc, cleaned, layers, listeners>>

\* the cleanup of lines 121-134; map.remove() takes the map's layers and their
\* listeners with it
Cleanup ==
    /\ initPc # "idle"
    /\ ~cleaned
    /\ cleaned' = TRUE
    /\ timers' = IF Truthy(timeoutId) THEN timers \ {timeoutId.v} ELSE timers
    /\ LET noMarkers == layers \ {markers[i] : i \in DOMAIN markers}
           noPolygon == IF polygon # Undefined THEN noMarkers \ {polygon} ELSE noMarkers
       IN  layers' = IF map # Undefined THEN {} ELSE noPolygon
    /\ listeners' = IF map # Undefined THEN {} ELSE listeners
    /\ UNCHANGED <<dataVars, impactPoints, loading, map, polygon, markers, timeoutId,
                   initPc>>

\* MapViewer is unmounted: React detaches the container from mapRef and runs the
\* cleanup
Unmount ==
    /\ mapRef' = Null
    /\ Cleanup

\* React runs the cleanup of a MapViewer that stays mounted, the container still
\* attached (the effect is run again, as strict mode does after the first run)
CleanupMounted ==
    /\ mapRef # Null
    /\ mapRef' = mapRef
    /\ Cleanup

NextViewer ==
    \/ UseEffect
    \/ InitResumes
    \/ TilesLoad
    \/ TimerFires
    \/ Unmount
    \/ CleanupMounted

SpecViewer == InitViewer /\ [][NextViewer]_vars

\* the import resolves or fails in the end, and the browser runs a timer that is
\* pending
SpecViewerFair == SpecViewer /\ WF_vars(InitResumes) /\ WF_vars(TimerFires)

----------------------------------------------------------------------------
(* Properties of the join *)

Joined == pc = "ready"
NSocio == Len(socioeconomic)
NGeo == Len(geographic)
\* positions of the points that carry a socioeconomic bundle / none
SocioPointIdx == {i \in DOMAIN unifiedPoints : unifiedPoints[i].socio # <<>>}
GeoOnlyPointIdx == {i \in DOMAIN unifiedPoints : unifiedPoints[i].socio = <<>>}
\* positions of the socioeconomic points / geo-only points that hold geographic row j
AttachedTo(j) ==
    {i \in SocioPointIdx : unifiedPoints[i].geo # <<>>
                           /\ unifiedPoints[i].geo[1].id = geographic[j].id}
StandaloneOf(j) ==
    {i \in GeoOnlyPointIdx : unifiedPoints[i].geo # <<>>
                             /\ unifiedPoints[i].geo[1].id = geographic[j].id}
\* geographic rows no socioeconomic point holds
UnmatchedGeo == {j \in 1..NGeo : AttachedTo(j) = {}}

\* C1 (as stated): after the join every geographic record is held by exactly one
\* unified point, the geo of one socioeconomic point or one geo-only point.
C1_GeoExactlyOnce ==
    Joined => \A j \in 1..NGeo : Cardinality(AttachedTo(j) \cup StandaloneOf(j)) = 1

\* C1 (amended): after the join every geographic record is held either by the
\* socioeconomic points that matched it (one or more) and by no geo-only point, or,
\* when no socioeconomic record matched it, by exactly one geo-only point: none is
\* dropped, none is both attached and standalone, none is standalone twice.
C1_GeoAttachedOrOnceAlone ==
    Joined => \A j \in 1..NGeo :
                \/ AttachedTo(j) # {} /\ StandaloneOf(j) = {}
                \/ AttachedTo(j) = {} /\ Cardinality(StandaloneOf(j)) = 1

\* a join in which one geographic record is attached and another stands alone
C1_Witness ==
    /\ Joined
    /\ \E j, k \in 1..NGeo : AttachedTo(j) # {} /\ StandaloneOf(k) # {}

\* x || 0 of a loss, said without the code: a missing (undefined, NaN) loss is 0
LossOrZero(l) == IF l.k \in {"undef", "nan"} THEN Num(0) ELSE l

\* C2: the join emits one point per socioeconomic record, in dataset order and
\* before every geo-only point; the point carries the record's id, coordinate, zone
\* and department, lossHousing = the record's estimatedLossHousing (0 when missing)
\* and lossRiskCategory = the computed thresholds applied to that loss.
C2_OnePointPerSocio ==
    Joined =>
      /\ Len(unifiedPoints) >= NSocio
      /\ SocioPointIdx = 1..NSocio
      /\ \A i \in 1..NSocio :
            LET s == socioeconomic[i]
                pt == unifiedPoints[i]
            IN  /\ pt.socio = <<s>>
                /\ pt.id = s.id /\ pt.lat = s.lat /\ pt.lng = s.lng
                /\ pt.zone = s.zone /\ pt.department = s.department
                /\ pt.lossHousing = LossOrZero(s.estimatedLossHousing)
                /\ pt.lossRiskCategory =
                     riskCategoryFromLoss(pt.lossHousing, lossThresholds.tLow,
                                          lossThresholds.tMid)

\* a join with percentile thresholds, the three categories among the socioeconomic
\* points, a missing loss and a geo-only point after them
C2_Witness ==
    /\ Joined
    /\ NSocio >= MinSample
    /\ {unifiedPoints[i].lossRiskCategory : i \in SocioPointIdx} = {"bajo", "medio", "alto"}
    /\ \E i \in 1..NSocio : socioeconomic[i].estimatedLossHousing = Undefined
    /\ GeoOnlyPointIdx # {}

\* C3: the number of unified points, and of toMapImpactPoints(getUnifiedPoints()),
\* is count(socioeconomic) + count(geographic records matched to no socioeconomic
\* record).
C3_OutputSize ==
    Joined =>
      /\ Len(unifiedPoints) = NSocio + Cardinality(UnmatchedGeo)
      /\ ret.fn = "toMapImpactPoints" => Len(ret.val) = NSocio + Cardinality(UnmatchedGeo)

\* toMapImpactPoints has run on a join with matched and unmatched geographic records
C3_Witness ==
    /\ ret.fn = "toMapImpactPoints"
    /\ NSocio > 0
    /\ UnmatchedGeo # {} /\ UnmatchedGeo # 1..NGeo

\* a coordinate (1e-7 degree) rounded to 6 decimals, as a number of 1e-6 degree
Round6(x) == IF x < 0 THEN -((5 - x) \div 10) ELSE (x + 5) \div 10
\* geographic rows whose rounded coordinates equal those of s
SameRounded(s) ==
    {j \in 1..NGeo : /\ Round6(geographic[j].lat) = Round6(s.lat)
                     /\ Round6(geographic[j].lng) = Round6(s.lng)}
DistCm(s, g) == haversineMeters([lat |-> s.lat, lng |-> s.lng], [lat |-> g.lat, lng |-> g.lng])

\* C4: each socioeconomic point holds a geographic record whose coordinates equal
\* the record's when both are rounded to 6 decimals; if there is none, a nearest
\* geographic record by haversine distance provided it is at most 150 m away;
\* otherwise no geo.
C4_MatchRule ==
    Joined =>
      \A i \in 1..NSocio :
        LET s == socioeconomic[i]
            g == unifiedPoints[i].geo
        IN  IF SameRounded(s) # {}
            THEN g # <<>> /\ \E j \in SameRounded(s) : g[1] = geographic[j]
            ELSE IF \E j \in 1..NGeo : DistCm(s, geographic[j]) <= 150 * 100
            THEN /\ g # <<>>
                 /\ \E j \in 1..NGeo : g[1] = geographic[j]
                 /\ DistCm(s, g[1]) <= 150 * 100
                 /\ \A j \in 1..NGeo : DistCm(s, g[1]) <= DistCm(s, geographic[j])
            ELSE g = <<>>

\* a join with a match by key between different coordinates and a fallback match
\* more than 120 m away
C4_Witness ==
    /\ Joined
    /\ \E i \in 1..NSocio :
         /\ unifiedPoints[i].geo # <<>>
         /\ SameRounded(socioeconomic[i]) # {}
         /\ unifiedPoints[i].geo[1].lat # socioeconomic[i].lat
    /\ \E i \in 1..NSocio :
         /\ unifiedPoints[i].geo # <<>>
         /\ SameRounded(socioeconomic[i]) = {}
         /\ DistCm(socioeconomic[i], unifiedPoints[i].geo[1]) > 120 * 100

\* the finite losses the thresholds are computed from: each record's loss, a missing
\* one counting as 0
FiniteLosses ==
    {i \in 1..NSocio : LossOrZero(socioeconomic[i].estimatedLossHousing).k = "num"}
LossAt(i) == LossOrZero(socioeconomic[i].estimatedLossHousing).v
\* the order statistic of rank r (from 0) among the finite losses
OrderStat(r) ==
    LET below(v) == Cardinality({i \in FiniteLosses : LossAt(i) < v})
        upto(v) == Cardinality({i \in FiniteLosses : LossAt(i) <= v})
    IN  CHOOSE v \in {LossAt(i) : i \in FiniteLosses} : below(v) <= r /\ r < upto(v)
\* 100 times the percentile p (in 1/100) by linear interpolation between the order
\* statistics around rank (n - 1) p
Percentile100(p) ==
    LET n == Cardinality(FiniteLosses)
        lo == ((n - 1) * p) \div 100
        w == ((n - 1) * p) % 100
    IN  IF w = 0 THEN 100 * OrderStat(lo)
        ELSE (100 - w) * OrderStat(lo) + w * OrderStat(lo + 1)

\* C5: with at least 4 finite loss values the thresholds are their 33rd and 66th
\* percentiles, interpolated linearly between the order statistics around index
\* (n - 1) p; with fewer they are 200 and 500.
C5_Thresholds ==
    Joined =>
      IF Cardinality(FiniteLosses) >= 4
      THEN /\ lossThresholds.tLow.k = "num" /\ lossThresholds.tMid.k = "num"
           /\ 100 * lossThresholds.tLow.v = Percentile100(33)
           /\ 100 * lossThresholds.tMid.v = Percentile100(66)
      ELSE /\ lossThresholds.tLow = Num(200 * 100)
           /\ lossThresholds.tMid = Num(500 * 100)

\* percentile thresholds that lie strictly between two order statistics
C5_Witness ==
    /\ Joined
    /\ Cardinality(FiniteLosses) >= 4
    /\ \A i \in FiniteLosses : LossAt(i) # lossThresholds.tLow.v
                               /\ LossAt(i) # lossThresholds.tMid.v

\* C6 (as stated): a socioeconomic record whose estimated housing loss is 0 is
\* classified bajo, whatever the other records' losses are.
C6_ZeroLossIsBajo ==
    Joined =>
      \A i \in 1..NSocio :
        socioeconomic[i].estimatedLossHousing = Num(0)
          => unifiedPoints[i].lossRiskCategory = "bajo"

\* C6 (amended): a socioeconomic record whose estimated housing loss is 0 is
\* classified bajo provided no record of the dataset has a negative finite loss.
C6_ZeroLossIsBajoNoNegative ==
    (Joined /\ \A i \in FiniteLosses : LossAt(i) >= 0) =>
      \A i \in 1..NSocio :
        socioeconomic[i].estimatedLossHousing = Num(0)
          => unifiedPoints[i].lossRiskCategory = "bajo"

\* percentile thresholds over non-negative losses, a zero loss among larger ones
C6_Witness ==
    /\ Joined
    /\ Cardinality(FiniteLosses) >= 4
    /\ \A i \in FiniteLosses : LossAt(i) >= 0
    /\ \E i \in 1..NSocio : socioeconomic[i].estimatedLossHousing = Num(0)
    /\ \E i \in 1..NSocio : unifiedPoints[i].lossRiskCategory = "alto"

\* C7: every geographic record matched by no socioeconomic record yields exactly one
\* geo-only point, after all socioeconomic points, with the record's id, no socio
\* bundle, lossHousing 0 and the category of its hazard score (>= 66 alto, >= 33
\* medio, else bajo); there is no other geo-only point.
C7_GeoOnlyPoints ==
    Joined =>
      /\ \A j \in UnmatchedGeo :
           LET g == geographic[j]
               at == {i \in DOMAIN unifiedPoints : unifiedPoints[i].id = g.id}
           IN  /\ Cardinality(at) = 1
               /\ \A i \in at :
                    /\ i > NSocio
                    /\ unifiedPoints[i].socio = <<>>
                    /\ unifiedPoints[i].geo = <<g>>
                    /\ unifiedPoints[i].lossHousing = Num(0)
                    /\ g.hazardScore.k = "num"
                    /\ unifiedPoints[i].lossRiskCategory =
                         (IF g.hazardScore.v >= 66 * 10000 THEN "alto"
                          ELSE IF g.hazardScore.v >= 33 * 10000 THEN "medio"
                          ELSE "bajo")
      /\ Cardinality(GeoOnlyPointIdx) = Cardinality(UnmatchedGeo)

\* geo-only points of two different categories, one of them medio, after a
\* socioeconomic point
C7_Witness ==
    /\ Joined
    /\ NSocio > 0
    /\ \E i, k \in GeoOnlyPointIdx :
         /\ unifiedPoints[i].lossRiskCategory = "medio"
         /\ unifiedPoints[k].lossRiskCategory # "medio"

----------------------------------------------------------------------------
(* Properties of the category functions *)

\* the category the breakpoints 33 and 66 give a score s (1e-4), finite or infinite
BreakpointCategory(s) ==
    IF s.k = "inf" THEN (IF s.v > 0 THEN "alto" ELSE "bajo")
    ELSE IF s.v >= 660000 THEN "alto" ELSE IF s.v >= 330000 THEN "medio" ELSE "bajo"

\* C8: scoreToCategory, riskCategoryFromScore and inferLossRiskForGeoOnly each give
\* "alto" for a score of 66 or more, "medio" for a score from 33 to below 66 and
\* "bajo" below 33, and whichever of the three ran returned what the other two
\* return for the same input (a NaN or missing one included).
C8_SameBreakpoints ==
    ret.fn \in {"scoreToCategory", "riskCategoryFromScore", "inferLossRiskForGeoOnly"}
        => /\ arg.val.k \in {"num", "inf"} => ret.val = BreakpointCategory(arg.val)
           /\ ret.val = scoreToCategory(arg.val)
           /\ ret.val = riskCategoryFromScore(arg.val)
           /\ ret.val = inferLossRiskForGeoOnly([hazardScore |-> arg.val])

\* the geo-only inference ran on a score of exactly 33 and said medio
C8_Witness ==
    /\ ret.fn = "inferLossRiskForGeoOnly"
    /\ arg.val = Num(330000)
    /\ ret.val = "medio"

----------------------------------------------------------------------------
(* Properties of computeDerived *)

InUnit(x) == x.k = "num" /\ 0 <= x.v /\ x.v <= 10000
InPercent(x) == x.k = "num" /\ 0 <= x.v /\ x.v <= 1000000

\* C9: every sub-score of either computeDerived is a number in [0,1] and the
\* composite hazardScore / vulnerabilityScore is a number in [0,100], never NaN,
\* whatever the inputs (missing, NaN, infinite or negative ones included).
C9_ScoresClamped ==
    /\ ret.fn = "geographic.computeDerived" =>
          /\ \A i \in DOMAIN ret.val.sub : InUnit(ret.val.sub[i])
          /\ InUnit(ret.val.variabilityIndex)
          /\ InPercent(ret.val.hazardScore)
    /\ ret.fn = "socioeconomic.computeDerived" =>
          /\ \A i \in DOMAIN ret.val.sub : InUnit(ret.val.sub[i])
          /\ InPercent(ret.val.vulnerabilityScore)

\* an infinite income over an infinite household: incomePerCapita is NaN and the
\* vulnerability score is still a number
C9_Witness ==
    /\ ret.fn = "socioeconomic.computeDerived"
    /\ arg.val.householdSize = PosInf
    /\ arg.val.monthlyIncome = PosInf
    /\ ret.val.incomePerCapita = NaN
    /\ ret.val.vulnerabilityScore.k = "num"

----------------------------------------------------------------------------
(* Properties of aggregateByZone *)

\* the count of a zone aggregate: sites (geographic) or households (socioeconomic)
ZoneCount(z) == IF "sites" \in DOMAIN z THEN z.sites.v ELSE z.households.v

RECURSIVE SumCounts(_, _)
SumCounts(aggs, i) ==
    IF i > Len(aggs) THEN 0 ELSE ZoneCount(aggs[i]) + SumCounts(aggs, i + 1)

Aggregated == ret.fn \in {"geographic.aggregateByZone", "socioeconomic.aggregateByZone"}

\* C10: for a list of N rows the counts of the zone aggregates sum to N, and every
\* row is counted in exactly one aggregate: the one whose zone is the row's zone
\* string, no two aggregates sharing a zone.
C10_CountsSumToN ==
    Aggregated =>
        /\ SumCounts(ret.val, 1) = Len(arg.val)
        /\ \A i, j \in DOMAIN ret.val : ret.val[i].zone = ret.val[j].zone => i = j
        /\ \A r \in DOMAIN arg.val : \E i \in DOMAIN ret.val : ret.val[i].zone = arg.val[r].zone
        /\ \A i \in DOMAIN ret.val :
              ZoneCount(ret.val[i])
                = Cardinality({r \in DOMAIN arg.val : arg.val[r].zone = ret.val[i].zone})

\* three rows, two of one zone and one of a zone that differs by case, aggregated
C10_Witness ==
    /\ Aggregated
    /\ Len(arg.val) = 3
    /\ Len(ret.val) = 2
    /\ ZoneCount(ret.val[1]) = 2
    /\ ret.val[1].zone = "Asociacion Los Olivos"
    /\ ret.val[2].zone = "asociacion los olivos"

----------------------------------------------------------------------------
(* Properties of the zone aggregates *)

GeoAggregated == ret.fn = "geographic.aggregateByZone"
SocioAggregated == ret.fn = "socioeconomic.aggregateByZone"

\* the input rows whose zone string is z
Members(z) == {r \in DOMAIN arg.val : arg.val[r].zone = z}

\* the sum of a numeric field over the rows of the index set S
RECURSIVE SumOver(_, _)
SumOver(S, field) ==
    IF S = {} THEN 0
    ELSE LET r == CHOOSE x \in S : TRUE
         IN  arg.val[r][field].v + SumOver(S \ {r}, field)

\* C11: in every zone aggregate of the geographic aggregateByZone, totalErosionSum
\* is the sum of erosionSum over exactly the input rows of that zone,
\* totalSedimentSum likewise the sum of sedimentSum, and netBalanceTotal is
\* totalErosionSum + totalSedimentSum.
C11_ZoneTotals ==
    GeoAggregated =>
        \A i \in DOMAIN ret.val :
            LET z == ret.val[i]
            IN  /\ z.totalErosionSum = Num(SumOver(Members(z.zone), "erosionSum"))
                /\ z.totalSedimentSum = Num(SumOver(Members(z.zone), "sedimentSum"))
                /\ z.netBalanceTotal = Num(z.totalErosionSum.v + z.totalSedimentSum.v)

\* a zone of two rows with different statistics beside a zone of one row
C11_Witness ==
    /\ GeoAggregated
    /\ Len(ret.val) = 2
    /\ Cardinality(Members(ret.val[1].zone)) = 2
    /\ \E r, q \in Members(ret.val[1].zone) : arg.val[r].erosionSum # arg.val[q].erosionSum
    /\ ret.val[1].totalErosionSum # ret.val[2].totalErosionSum

\* the rows at which a zone string occurs for the first time
FirstOccurrences ==
    {r \in DOMAIN arg.val : \A q \in 1..(r - 1) : arg.val[q].zone # arg.val[r].zone}

\* the i-th smallest element of the set S of numbers
Nth(S, i) == CHOOSE x \in S : Cardinality({y \in S : y < x}) = i - 1

\* C12: aggregateByZone (either module) returns exactly one row per distinct zone
\* string of its input, strings compared exactly (case and spaces count), and the
\* rows come in the order in which the zones first occur in the input.
C12_OneRowPerZoneInFirstSeenOrder ==
    Aggregated =>
        /\ Len(ret.val) = Cardinality({arg.val[r].zone : r \in DOMAIN arg.val})
        /\ \A i \in DOMAIN ret.val :
              ret.val[i].zone = arg.val[Nth(FirstOccurrences, i)].zone

\* three rows whose zones differ by case and by a trailing space, the first seen
\* zone sorting last, and a repeat of the first zone after the second
C12_Witness ==
    /\ SocioAggregated
    /\ Len(arg.val) = 3
    /\ arg.val[1].zone = "asociacion los olivos"
    /\ arg.val[2].zone = "Asociacion Los Olivos "
    /\ arg.val[3].zone = "asociacion los olivos"
    /\ Len(ret.val) = 2
    /\ ret.val[1].zone = "asociacion los olivos"

\* the hazard / vulnerability score (1e-4) of input row r, computed for a raw row
RowHazard(r) == GeoEnriched(arg.val[r]).hazardScore.v
RowVulnerability(r) == SocioEnriched(arg.val[r]).vulnerabilityScore.v

RECURSIVE SumHazard(_)
SumHazard(S) ==
    IF S = {} THEN 0
    ELSE LET r == CHOOSE x \in S : TRUE IN RowHazard(r) + SumHazard(S \ {r})

RECURSIVE SumVulnerability(_)
SumVulnerability(S) ==
    IF S = {} THEN 0
    ELSE LET r == CHOOSE x \in S : TRUE IN RowVulnerability(r) + SumVulnerability(S \ {r})

\* the categories of the members of zone aggregate z
MemberCategories(z) == {GeoEnriched(arg.val[r]).riskCategory : r \in Members(z.zone)}

\* C13: a zone aggregate's average score is the sum of its members' scores over
\* their number (avgHazardScore in the geographic module, avgVulnerability in the
\* socioeconomic one) and its riskCategory is the breakpoint category of that
\* average.
C13_CategoryOfAverage ==
    /\ GeoAggregated =>
          \A i \in DOMAIN ret.val :
              LET z == ret.val[i]
                  S == Members(z.zone)
              IN  /\ z.avgHazardScore = Num(SumHazard(S) \div Cardinality(S))
                  /\ z.riskCategory = BreakpointCategory(z.avgHazardScore)
    /\ SocioAggregated =>
          \A i \in DOMAIN ret.val :
              LET z == ret.val[i]
                  S == Members(z.zone)
              IN  /\ z.avgVulnerability = Num(SumVulnerability(S) \div Cardinality(S))
                  /\ z.riskCategory = BreakpointCategory(z.avgVulnerability)

\* a geographic zone of an alto and a bajo member whose category, medio, is the
\* category of no member
C13_Witness ==
    /\ GeoAggregated
    /\ Len(ret.val) >= 1
    /\ MemberCategories(ret.val[1]) = {"alto", "bajo"}
    /\ ret.val[1].riskCategory = "medio"

----------------------------------------------------------------------------
(* Properties of the lookup helpers *)

\* C14: whatever calls of getUnifiedPoints, getUnifiedPointById, toMapImpactPoints
\* and getLossThresholds came before, in whatever order, the stored points and
\* thresholds are those of the one join of the datasets, and a call of
\* getUnifiedPoints() returns those points in that order, a call of
\* getLossThresholds() those thresholds.
C14_JoinComputedOnce ==
    Joined =>
        LET j == joinPoints(socioeconomic, geographic)
        IN  /\ unifiedPoints = j.points
            /\ lossThresholds = j.thresholds
            /\ ret.fn = "getUnifiedPoints" => ret.val = j.points
            /\ ret.fn = "getLossThresholds" => ret.val = j.thresholds

\* getUnifiedPoints() answered with three points
C14_Witness ==
    /\ Joined
    /\ ret.fn = "getUnifiedPoints"
    /\ Len(ret.val) = 3

----------------------------------------------------------------------------
(* Properties of the derived indicators *)

Magnitude(x) ==
    IF x.k = "num" THEN AbsInt(x.v) ELSE IF x.k = "inf" THEN 1073741824 ELSE 0

\* a exceeds b by more than 10%, of magnitudes
ExceedsByTenth(a, b) ==
    IF a = 1073741824 THEN b # 1073741824
    ELSE b # 1073741824 /\ 10 * a > 11 * b

SwapDominance(d) ==
    IF d = "erosion" THEN "sedimentacion" ELSE IF d = "sedimentacion" THEN "erosion" ELSE d

\* C17: processDominance is erosion exactly when |erosionSum| > 1.1 |sedimentSum|,
\* sedimentacion exactly when that fails and |sedimentSum| > 1.1 |erosionSum|,
\* mixto exactly when both fail; the two comparisons never hold together; and
\* the record with the two sums exchanged gets the exchanged label.
C17_ProcessDominance ==
    (pc = "done" /\ ret.fn = "geographic.computeDerived") =>
        LET e == Magnitude(arg.val.erosionSum)
            s == Magnitude(arg.val.sedimentSum)
            d == ret.val.processDominance
            swapped == [arg.val EXCEPT !.erosionSum = arg.val.sedimentSum,
                                       !.sedimentSum = arg.val.erosionSum]
        IN  /\ d \in {"erosion", "sedimentacion", "mixto"}
            /\ (d = "erosion") <=> ExceedsByTenth(e, s)
            /\ (d = "sedimentacion") <=> (~ExceedsByTenth(e, s) /\ ExceedsByTenth(s, e))
            /\ (d = "mixto") <=> (~ExceedsByTenth(e, s) /\ ~ExceedsByTenth(s, e))
            /\ ~(ExceedsByTenth(e, s) /\ ExceedsByTenth(s, e))
            /\ GeoComputeDerived(swapped).processDominance = SwapDominance(d)

\* sums of different magnitude within 10% of each other: mixto
C17_Witness ==
    /\ pc = "done" /\ ret.fn = "geographic.computeDerived"
    /\ arg.val.erosionSum = Num(-11) /\ arg.val.sedimentSum = Num(10)
    /\ ret.val.processDominance = "mixto"

\* 30 income + 20 dependents + 10 elders + 15 chronic + 15 noInsurance
\* + 10 illiteracy - 5 higherEdu, of sub-scores in 1e-4
WeightedSum(sub) ==
    30 * sub[1].v + 20 * sub[2].v + 10 * sub[3].v + 15 * sub[4].v + 15 * sub[5].v
        + 10 * sub[6].v - 5 * sub[7].v

ClampInt(x, lo, hi) == IF x < lo THEN lo ELSE IF x > hi THEN hi ELSE x

\* C18: every sub-score is a number in [0,1] and vulnerabilityScore is the
\* weighted sum of the seven sub-scores clamped to [0,100]; a negative weighted
\* sum gives the score 0.
C18_WeightedScoreClamped ==
    (pc = "done" /\ ret.fn = "socioeconomic.computeDerived") =>
        LET sub == ret.val.sub
            score == ret.val.vulnerabilityScore
        IN  /\ \A i \in 1..7 : IsFinite(sub[i]) /\ sub[i].v \in 0..10000
            /\ score = Num(ClampInt(WeightedSum(sub), 0, 100 * 10000))
            /\ WeightedSum(sub) < 0 => score = Num(0)

\* only the higher-education term is non-zero: the weighted sum is -5, the score 0
C18_Witness ==
    /\ pc = "done" /\ ret.fn = "socioeconomic.computeDerived"
    /\ ret.val.sub = <<Num(0), Num(0), Num(0), Num(0), Num(0), Num(0), Num(10000)>>
    /\ WeightedSum(ret.val.sub) = -50000
    /\ ret.val.vulnerabilityScore = Num(0)

\* clamp01(x / 1) in 1e-4, of a count x; an absent or NaN count gives 0
RatioOverOne(x) ==
    IF x.k \in {"nan", "undef"} THEN 0
    ELSE IF x.k = "inf" THEN (IF x.v > 0 THEN 10000 ELSE 0)
    ELSE ClampInt(x.v * 10000, 0, 10000)

\* monthlyIncome / 1 in 1/100, an absent or NaN income counting as 0
IncomeOverOne(x) ==
    IF x.k \in {"nan", "undef"} THEN Num(0)
    ELSE IF x.k = "inf" THEN x
    ELSE Num(x.v * 100)

\* C19: the divisor of incomePerCapita and of the ratio sub-scores is a number
\* of at least 1, max(1, householdSize) for a given householdSize; for
\* householdSize missing, 0 or negative it is 1, incomePerCapita is
\* monthlyIncome and every ratio sub-score is its count over 1, clamped.
C19_DivisorAtLeastOne ==
    (pc = "done" /\ ret.fn = "socioeconomic.computeDerived") =>
        LET hs == arg.val.householdSize
            d == ret.val.divisor
            sub == ret.val.sub
        IN  /\ d.k \in {"num", "inf"} /\ d.v >= 1
            /\ hs.k = "num" => d = Num(IF hs.v > 1 THEN hs.v ELSE 1)
            /\ (hs.k = "undef" \/ (hs.k = "num" /\ hs.v <= 0)) =>
                  /\ d = Num(1)
                  /\ ret.val.incomePerCapita = IncomeOverOne(arg.val.monthlyIncome)
                  /\ sub[2].v = RatioOverOne(ret.val.dependents)
                  /\ sub[3].v = RatioOverOne(arg.val.elders65)
                  /\ sub[4].v = RatioOverOne(arg.val.chronicConditionCount)
                  /\ sub[6].v = RatioOverOne(arg.val.illiterateCount)
                  /\ sub[7].v = RatioOverOne(arg.val.higherEducationCount)

\* a household of size 0 with income: the income is divided by 1
C19_Witness ==
    /\ pc = "done" /\ ret.fn = "socioeconomic.computeDerived"
    /\ arg.val.householdSize = Num(0)
    /\ arg.val.monthlyIncome = Num(1500)
    /\ ret.val.divisor = Num(1)
    /\ ret.val.incomePerCapita = Num(150000)

\* a < b of two field values that are numbers, infinite ones included
Raised(a, b) == a.k \in {"num", "inf"} /\ b.k \in {"num", "inf"} /\ JsLt(a, b)

\* the vulnerability score, in 1e-4, of r with field f set to v
ScoreWith(r, f, v) == SocioComputeDerived([r EXCEPT ![f] = v]).vulnerabilityScore.v

\* the values a field is raised to: those of SocioFieldValues, further counts
\* and incomes, and both infinities
RaisedValues(f) ==
    SocioFieldValues[f]
        \cup {Num(1), Num(4), Num(750), Num(3000), PosInf, NegInf}

\* every value above r[f] moves the score of r in the direction dir
\* (1: not down, -1: not up)
MonotoneIn(r, f, dir) ==
    LET base == SocioComputeDerived(r).vulnerabilityScore.v
    IN  \A v \in RaisedValues(f) :
            Raised(r[f], v) => dir * ScoreWith(r, f, v) >= dir * base

Insured(r) == JsGt(OrElse(r.healthInsuranceCount, Num(0)), Num(0))

\* every uninsured value of healthInsuranceCount gives r, if insured, a score
\* that is not lower
MonotoneInLosingInsurance(r) ==
    Insured(r) =>
        \A v \in RaisedValues("healthInsuranceCount") :
            ~Insured([r EXCEPT !.healthInsuranceCount = v]) =>
                ScoreWith(r, "healthInsuranceCount", v)
                    >= SocioComputeDerived(r).vulnerabilityScore.v

\* the directions of the doc comment of computeDerived
MonotoneAll(r) ==
    /\ MonotoneIn(r, "monthlyIncome", -1)
    /\ MonotoneIn(r, "higherEducationCount", -1)
    /\ MonotoneIn(r, "elders65", 1)
    /\ MonotoneIn(r, "childrenUnder10", 1)
    /\ MonotoneIn(r, "chronicConditionCount", 1)
    /\ MonotoneIn(r, "illiterateCount", 1)
    /\ MonotoneInLosingInsurance(r)

\* the corner where income per capita is -Infinity / Infinity
IncomePerCapitaUndefined(r) == r.householdSize = PosInf /\ r.monthlyIncome = NegInf

\* C20: with all other fields fixed, raising higherEducationCount never raises
\* vulnerabilityScore; raising elders65, childrenUnder10, chronicConditionCount or
\* illiterateCount, or going from insured to uninsured, never lowers it; and
\* raising monthlyIncome never raises it unless householdSize is Infinity and
\* monthlyIncome was -Infinity.
C20_MonotoneWhereIncomePerCapitaDefined ==
    (pc = "done" /\ ret.fn = "socioeconomic.computeDerived") =>
        LET r == arg.val
        IN  /\ ~IncomePerCapitaUndefined(r) => MonotoneIn(r, "monthlyIncome", -1)
            /\ MonotoneIn(r, "higherEducationCount", -1)
            /\ MonotoneIn(r, "elders65", 1)
            /\ MonotoneIn(r, "childrenUnder10", 1)
            /\ MonotoneIn(r, "chronicConditionCount", 1)
            /\ MonotoneIn(r, "illiterateCount", 1)
            /\ MonotoneInLosingInsurance(r)

\* a household of 3 without income whose score falls when the income rises to
\* 1500 and rises when a member gets a chronic condition
C20_Witness ==
    /\ pc = "done" /\ ret.fn = "socioeconomic.computeDerived"
    /\ arg.val.householdSize = Num(3) /\ arg.val.monthlyIncome = Num(0)
    /\ arg.val.chronicConditionCount = Num(0)
    /\ ScoreWith(arg.val, "monthlyIncome", Num(1500)) < ret.val.vulnerabilityScore.v
    /\ ScoreWith(arg.val, "chronicConditionCount", Num(1)) > ret.val.vulnerabilityScore.v

\* C20 as stated: the seven directions for every record
C20_MonotoneEverywhere ==
    (pc = "done" /\ ret.fn = "socioeconomic.computeDerived") => MonotoneAll(arg.val)

----------------------------------------------------------------------------
(* Properties of the projections *)

\* out is the projection of points: as long, and element by element the id, lat
\* and lng of the point, its category as severity, and its zone, department, loss
\* and category as details
ProjectionOf(points, out) ==
    /\ Len(out) = Len(points)
    /\ \A i \in 1..Len(points) :
         /\ out[i].id = points[i].id
         /\ out[i].lat = points[i].lat
         /\ out[i].lng = points[i].lng
         /\ out[i].severity = points[i].lossRiskCategory
         /\ out[i].details.zone = points[i].zone
         /\ out[i].details.department = points[i].department
         /\ out[i].details.lossHousing = points[i].lossHousing
         /\ out[i].details.lossRiskCategory = points[i].lossRiskCategory

\* C21: toMapImpactPoints, of the stored unified points or of a list passed to
\* it, returns a list of the same length and order whose elements carry the id,
\* lat, lng of their point, its lossRiskCategory as severity, and its zone,
\* department, lossHousing and lossRiskCategory as details.
C21_PureProjection ==
    /\ ret.fn = "toMapImpactPoints" => ProjectionOf(unifiedPoints, ret.val)
    /\ ret.fn = "toMapImpactPoints(points)" => ProjectionOf(ret.points, ret.val)

\* the stored list passed backwards, a geo-only point first
C21_Witness ==
    /\ ret.fn = "toMapImpactPoints(points)"
    /\ Len(ret.points) = 3
    /\ ret.points # unifiedPoints
    /\ ret.points[1].socio = <<>>
    /\ ret.val[1].id = ret.points[1].id

\* C22: haversineMeters of a point and itself is 0, and of two points 0.001
\* degree apart in latitude, at the same longitude, is 111 m to within 1 m
\* (the result is in centimetres).
C22_HaversineZeroAnd111 ==
    (pc = "done" /\ ret.fn = "haversineMeters") =>
        LET a == arg.val[1]
            b == arg.val[2]
        IN  /\ a = b => ret.val = 0
            /\ (a.lng = b.lng /\ AbsInt(a.lat - b.lat) = 10000) =>
                  (ret.val >= 11000 /\ ret.val <= 11200)

\* the distance from (-16.394224, -71.469349) to the point 0.001 degree north
C22_Witness ==
    /\ pc = "done" /\ ret.fn = "haversineMeters"
    /\ arg.val[1] = CoordA
    /\ arg.val[2] = [lat |-> CoordA.lat + 10000, lng |-> CoordA.lng]
    /\ ret.val = 11119

\* the derived field f of a row: its own if the row is enriched, computed from
\* its raw fields if not
GeoDerivedOf(r, f) == IF "hazardScore" \in DOMAIN r THEN r[f] ELSE GeoComputeDerived(r)[f]
SocioDerivedOf(r, f) ==
    IF "vulnerabilityScore" \in DOMAIN r THEN r[f] ELSE SocioComputeDerived(r)[f]

\* f is a Point feature at [lng, lat] of row r with the id, zone and department of r
PointFeatureOf(f, r) ==
    /\ f.type = "Feature"
    /\ f.geometry.type = "Point"
    /\ f.geometry.coordinates = <<r.lng, r.lat>>
    /\ f.properties.id = r.id
    /\ f.properties.zone = r.zone
    /\ f.properties.department = r.department

\* C23: toGeoJSON of either module returns a FeatureCollection with one Point
\* feature per input row, in input order, at [lng, lat] of the row, whose
\* properties carry the row's id, zone, department, score and category.
C23_OneFeaturePerRow ==
    /\ ret.fn \in {"geographic.toGeoJSON", "socioeconomic.toGeoJSON"} =>
          /\ ret.val.type = "FeatureCollection"
          /\ Len(ret.val.features) = Len(arg.val)
          /\ \A i \in 1..Len(arg.val) : PointFeatureOf(ret.val.features[i], arg.val[i])
    /\ ret.fn = "geographic.toGeoJSON" =>
          \A i \in 1..Len(arg.val) :
             LET p == ret.val.features[i].properties
             IN  /\ p.hazardScore = GeoDerivedOf(arg.val[i], "hazardScore")
                 /\ p.riskCategory = GeoDerivedOf(arg.val[i], "riskCategory")
    /\ ret.fn = "socioeconomic.toGeoJSON" =>
          \A i \in 1..Len(arg.val) :
             LET p == ret.val.features[i].properties
             IN  /\ p.vulnerabilityScore = SocioDerivedOf(arg.val[i], "vulnerabilityScore")
                 /\ p.riskCategory = SocioDerivedOf(arg.val[i], "riskCategory")

\* three geographic rows of two zones, the first raw and alto, the last bajo
C23_Witness ==
    /\ ret.fn = "geographic.toGeoJSON"
    /\ Len(arg.val) = 3
    /\ "hazardScore" \notin DOMAIN arg.val[1]
    /\ arg.val[1].zone # arg.val[2].zone
    /\ ret.val.features[1].properties.riskCategory = "alto"
    /\ ret.val.features[3].properties.riskCategory = "bajo"
    /\ ret.val.features[1].geometry.coordinates = <<CoordA.lng, CoordA.lat>>

----------------------------------------------------------------------------
(* Further properties of the join *)

\* ids of the geographic records attached to a socioeconomic point
MatchedGeoIds ==
    {unifiedPoints[i].geo[1].id : i \in {k \in SocioPointIdx : unifiedPoints[k].geo # <<>>}}
\* ids of the geographic records of the geo-only points
GeoOnlyGeoIds == {unifiedPoints[i].geo[1].id : i \in GeoOnlyPointIdx}
AllGeoIds == {geographic[j].id : j \in 1..NGeo}

\* C24: every geo-only point carries a geographic record; no geographic id is
\* both on a geo-only point and attached to a socioeconomic point; and the ids on
\* the geo-only points are exactly the geographic ids attached to none.
C24_GeoOnlyIsComplementOfMatched ==
    Joined =>
        /\ \A i \in GeoOnlyPointIdx : unifiedPoints[i].geo # <<>>
        /\ GeoOnlyGeoIds \cap MatchedGeoIds = {}
        /\ GeoOnlyGeoIds = AllGeoIds \ MatchedGeoIds

\* one geographic record attached by the nearest-neighbour fallback, the other
\* geo-only
C24_Witness ==
    /\ Joined
    /\ NGeo = 2
    /\ Cardinality(MatchedGeoIds) = 1
    /\ Cardinality(GeoOnlyGeoIds) = 1
    /\ \E i \in SocioPointIdx :
         /\ unifiedPoints[i].geo # <<>>
         /\ coordKey(unifiedPoints[i].lat, unifiedPoints[i].lng)
              # coordKey(unifiedPoints[i].geo[1].lat, unifiedPoints[i].geo[1].lng)

----------------------------------------------------------------------------
(* Properties of the loss thresholds *)

CategoryRank(c) == IF c = "bajo" THEN 1 ELSE IF c = "medio" THEN 2 ELSE 3

\* the category of a loss of the input set under the thresholds returned
CategoryUnderReturned(l) ==
    riskCategoryFromLossF64(F64FromRatio(l.v, 100), ret.val.tLow, ret.val.tMid)

\* C25: computeLossThresholds returns tLow <= tMid, and under the thresholds
\* returned the category of a loss is never higher than that of a larger loss,
\* with bajo up to tLow, medio above tLow up to tMid and alto above tMid.
C25_ThresholdsOrdered ==
    (pc = "done" /\ ret.fn = "computeLossThresholds") =>
        /\ F64Le(ret.val.tLow, ret.val.tMid)
        /\ \A a \in ThresholdLosses, b \in ThresholdLosses :
             a.v <= b.v =>
                CategoryRank(CategoryUnderReturned(a)) <= CategoryRank(CategoryUnderReturned(b))
        /\ \A a \in ThresholdLosses :
             LET x == F64FromRatio(a.v, 100)
                 c == CategoryUnderReturned(a)
             IN  /\ c = "bajo" <=> F64Le(x, ret.val.tLow)
                 /\ c = "medio" <=> (~F64Le(x, ret.val.tLow) /\ F64Le(x, ret.val.tMid))
                 /\ c = "alto" <=> ~F64Le(x, ret.val.tMid)

\* what holds of the categories whatever the order of the thresholds: a larger
\* loss never gets a lower category
C25_CategoryMonotone ==
    (pc = "done" /\ ret.fn = "computeLossThresholds") =>
        \A a \in ThresholdLosses, b \in ThresholdLosses :
            a.v <= b.v =>
                CategoryRank(CategoryUnderReturned(a)) <= CategoryRank(CategoryUnderReturned(b))

\* four losses of S/. 0.85: tLow is 0.8500000000000001 and tMid 0.85
C25_Witness ==
    /\ pc = "done" /\ ret.fn = "computeLossThresholds"
    /\ arg.val = <<Num(85), Num(85), Num(85), Num(85)>>
    /\ ret.val.tMid = F64FromRatio(85, 100)
    /\ F64Cmp(ret.val.tLow, ret.val.tMid) = 1

----------------------------------------------------------------------------
(* Properties of the point ids *)

\* C26: the ids of the unified points are pairwise distinct, SOC ids on the
\* points of socioeconomic records and GEOG ids on the geo-only points; and
\* getUnifiedPointById(id) returns the one point with that id, or undefined when
\* no point has it.
C26_IdsDistinctLookupUnique ==
    Joined =>
        /\ \A i \in DOMAIN unifiedPoints, j \in DOMAIN unifiedPoints :
              i # j => unifiedPoints[i].id # unifiedPoints[j].id
        /\ \A i \in SocioPointIdx : unifiedPoints[i].id[1] = "SOC"
        /\ \A i \in GeoOnlyPointIdx : unifiedPoints[i].id[1] = "GEOG"
        /\ ret.fn = "getUnifiedPointById" =>
              /\ \A i \in DOMAIN unifiedPoints :
                    unifiedPoints[i].id = ret.id => ret.val = <<unifiedPoints[i]>>
              /\ (\A i \in DOMAIN unifiedPoints : unifiedPoints[i].id # ret.id)
                    => ret.val = <<>>

\* two socioeconomic points of one geographic record and a geo-only point; the
\* lookup of the second socioeconomic id returned its point
C26_Witness ==
    /\ Joined
    /\ Len(unifiedPoints) = 3
    /\ unifiedPoints[1].geo # <<>> /\ unifiedPoints[1].geo = unifiedPoints[2].geo
    /\ ret.fn = "getUnifiedPointById"
    /\ ret.id = <<"SOC", 2>>
    /\ ret.val = <<unifiedPoints[2]>>

\* a lookup of an id no point has returned undefined
C26_WitnessAbsent ==
    /\ Joined
    /\ ret.fn = "getUnifiedPointById"
    /\ ret.id = <<"GEOG", 3>>
    /\ ret.val = <<>>

----------------------------------------------------------------------------
(* Raw and enriched rows *)

\* the raw record of a row, and its enrichment by withDerived
GeoRawOf(r) == [f \in DOMAIN r \ GeoDerivedFields |-> r[f]]
SocioRawOf(r) == [f \in DOMAIN r \ SocioDerivedFields |-> r[f]]
GeoAllRaw(rows) == [i \in 1..Len(rows) |-> GeoRawOf(rows[i])]
GeoAllEnriched(rows) == [i \in 1..Len(rows) |-> GeoWithDerived(GeoRawOf(rows[i]))]
SocioAllRaw(rows) == [i \in 1..Len(rows) |-> SocioRawOf(rows[i])]
SocioAllEnriched(rows) == [i \in 1..Len(rows) |-> SocioWithDerived(SocioRawOf(rows[i]))]

\* C27: aggregateByZone and toGeoJSON return, for a list of rows some of which
\* are raw and some enriched by withDerived, what they return for the same
\* records all raw and for the same records all enriched.
C27_RawAndEnrichedAgree ==
    /\ ret.fn = "geographic.aggregateByZone" =>
          /\ ret.val = GeoAggregateByZone(GeoAllRaw(arg.val))
          /\ ret.val = GeoAggregateByZone(GeoAllEnriched(arg.val))
    /\ ret.fn = "geographic.toGeoJSON" =>
          /\ ret.val = GeoToGeoJSON(GeoAllRaw(arg.val))
          /\ ret.val = GeoToGeoJSON(GeoAllEnriched(arg.val))
    /\ ret.fn = "socioeconomic.aggregateByZone" =>
          /\ ret.val = SocioAggregateByZone(SocioAllRaw(arg.val))
          /\ ret.val = SocioAggregateByZone(SocioAllEnriched(arg.val))
    /\ ret.fn = "socioeconomic.toGeoJSON" =>
          /\ ret.val = SocioToGeoJSON(SocioAllRaw(arg.val))
          /\ ret.val = SocioToGeoJSON(SocioAllEnriched(arg.val))

\* aggregateByZone of a raw alto row and an enriched row of the same zone
C27_Witness ==
    /\ ret.fn = "geographic.aggregateByZone"
    /\ Len(arg.val) = 2
    /\ "hazardScore" \notin DOMAIN arg.val[1]
    /\ "hazardScore" \in DOMAIN arg.val[2]
    /\ arg.val[1].zone = arg.val[2].zone
    /\ Len(ret.val) = 1
    /\ ret.val[1].riskCategory = "alto"

----------------------------------------------------------------------------
(* Properties of the zone categories *)

\* the ranks of the categories of the members of zone row z
MemberRanks(z) ==
    {CategoryRank(IF ret.fn = "geographic.aggregateByZone"
                  THEN GeoEnriched(arg.val[r]).riskCategory
                  ELSE SocioEnriched(arg.val[r]).riskCategory) :
        r \in Members(z.zone)}

\* C28: the riskCategory of a zone aggregate is not lower than the lowest and not
\* higher than the highest riskCategory of the zone's members (bajo < medio <
\* alto); when all members share one category it is the zone's.
C28_ZoneCategoryBetweenMembers ==
    (GeoAggregated \/ SocioAggregated) =>
        \A i \in DOMAIN ret.val :
            LET z == ret.val[i]
                ranks == MemberRanks(z)
            IN  /\ \E lo \in ranks : lo <= CategoryRank(z.riskCategory)
                /\ \E hi \in ranks : CategoryRank(z.riskCategory) <= hi
                /\ Cardinality(ranks) = 1 => ranks = {CategoryRank(z.riskCategory)}

\* a socioeconomic zone of three medio households, which is medio
C28_Witness ==
    /\ SocioAggregated
    /\ Len(ret.val) = 1
    /\ Cardinality(Members(ret.val[1].zone)) = 3
    /\ MemberRanks(ret.val[1]) = {2}
    /\ ret.val[1].riskCategory = "medio"

----------------------------------------------------------------------------
(* Properties of MapViewer *)

Remaining == layers \cap ({LMap, LPolygon} \cup {markers[i] : i \in DOMAIN markers})

\* C30: once the cleanup of the effect has run, no map, polygon or marker made by
\* the effect's init is on the page and no timer set by it is pending, whenever
\* the cleanup ran: before or after the leaflet import resolved, the container
\* attached or not.
C30_NothingRemainsAfterCleanup == cleaned => (Remaining = {} /\ timers = {})

\* the cleanup ran with the container attached before the import resolved; init
\* then made the map, the polygon, a marker and the timer
C30_Witness ==
    /\ cleaned
    /\ initPc = "end"
    /\ mapRef = Container
    /\ {LMap, LPolygon} \subseteq Remaining
    /\ Len(markers) >= 1
    /\ timers # {}

\* once MapViewer is unmounted, its container detached, nothing of the effect
\* remains
C30_NothingRemainsAfterUnmount ==
    (cleaned /\ mapRef = Null) => (Remaining = {} /\ timers = {})

====
